---- MODULE Spec2Model ----
(***************************************************************************)
(* Ruuvi listener / gateway.                                               *)
(*                                                                         *)
(* Part 1: the BLE scanner's report handler (ruuvi-listener/src/scanner.rs)*)
(*         with its deduplication table and the handoff channel.           *)
(* Part 2: the listener's sender task (ruuvi-listener/src/sender.rs) and    *)
(*         the gateway's connection handler (ruuvi-gateway/src/main.rs),    *)
(*         connected by framed TCP streams.                                 *)
(* Part 3: the clock arithmetic of the time sync and of the timestamps     *)
(*         (sync_time and the 'sending loop of sender.rs).                  *)
(* Part 4: the framing of send and recv.                                   *)
(* Part 5: the advertisement reports and parse_ruuvi_raw (schema.rs).      *)
(* Part 6: the humidity formulas of the gateway in floating point.         *)
(* Part 7: the unit conversion of the gateway (from_raw).                  *)
(* Part 8: the LED task of the listener (ruuvi-listener/src/led.rs).       *)
(* Part 9: the timestamp of the rows the gateway stores (from_raw).         *)
(***************************************************************************)
EXTENDS Integers, Sequences, FiniteSets, TLC

(***************************************************************************)
(* Bounds of the model                                                     *)
(***************************************************************************)
\* MAC addresses of the advertising sensors
Macs == {"M", "N"}
\* measurement sequence numbers drawn for arbitrary report streams: 1..MaxSeq
MaxSeq == 2
\* length of an arbitrary report stream (Spec)
MaxReports == 5
\* length of a sensor report stream (SpecOverflow)
MaxSensorReports == 34
\* re-advertisements of an unchanged measurement in a sensor stream
MaxDups == 2
\* records the consumer takes from the channel in the scanner specifications
MaxReceives == 2
\* sensors in range of the scanner (SpecFleet) and the reports they send
MaxFleet == 17
MaxFleetReports == 19

\* connections the listener establishes
MaxConns == 2
\* backoff sleeps in one run of failures
MaxFailStreak == 7
\* records the scanner produces in the session specification
MaxSessReports == 1

\* the stream specification: connections, backoff sleeps in one run of
\* failures, records of the scanner, frames the network corrupts or repeats
MaxStreamConns == 1
MaxStreamFails == 1
MaxStreamReports == 2
MaxTampers == 1

\* the server specification: connections, backoff sleeps in one run of
\* failures, records of the scanner
MaxServerConns == 2
MaxServerFails == 1
MaxServerReports == 2

(***************************************************************************)
(* Program constants                                                       *)
(***************************************************************************)
\* Channel<NoopRawMutex, (RuuviRaw, Instant), 16>
CHANNEL_CAP == 16
\* Channel<NoopRawMutex, LedEvent, 16>
LED_CAP == 16
\* FnvIndexMap<[u8; 6], u32, 16>
SEQ_MAP_CAP == 16

\* const BASE_BACKOFF_MS: u64 = 500
BASE_BACKOFF_MS == 500
\* const MAX_BACKOFF_SECS: u64 = 30
MAX_BACKOFF_SECS == 30
\* the gateway's PSK_KEY (AUTH_KEY of its environment); the listener's
\* gateway_config.auth is one of Psks
PSK_KEY == "psk_a"
Psks == {"psk_a", "psk_b"}

None == "None"

\* the byte-level parts at rest: nothing framed, no report taken, nothing
\* parsed, nothing converted
NoFrame == [stage |-> "idle"]

NoReport == [seen |-> 0]

NoParse == [done |-> FALSE]

NoConversion == [fn |-> "none"]

VARIABLES
    sequence_numbers,   \* Handler.sequence_numbers: MAC -> last measurement seq
    channel,            \* the handoff channel scanner -> sender
    led_channel,        \* the LED event channel
    arrivals,           \* history: every parsed report the handler has seen
    forwarded,          \* history: every record try_send put on the channel
    received,           \* history: number of records the consumer has taken
    auth,               \* listener: gateway_config.auth, its PSK
    l_pc,               \* listener sender task: its position in run()
    backoff_ms,         \* listener: backoff_ms
    time_reference,     \* listener: time_reference, the reference point, or None
                        \* (its session in the session specifications, its
                        \* Instant and its Unix milliseconds in SpecStamp)
    conn,               \* number of TCP connections established so far
    l_tp,               \* listener: TransportState tp of the session, or None
    l_open,             \* l_open[c]: the listener's socket of connection c is alive
    g_pc,               \* g_pc[c]: position of the gateway's handle_conn task
    g_tp,               \* g_tp[c]: the gateway's TransportState, or None
    l2g,                \* l2g[c]: frames in flight listener -> gateway
    g2l,                \* g2l[c]: frames in flight gateway -> listener
    rows,               \* rows[c]: records handle_conn inserted
    wire,               \* history: wire[c], every frame written on c, in order
    g_fail,             \* history: stage in which handle_conn of c returned Err
    retry,              \* history: the listener's last failure and whether it slept since
    sleeps,             \* history: backoff sleeps since backoff_ms was last the base
    accepting,          \* gateway: tcp_server is in its accept loop (the process runs)
    g_data,             \* g_data[c]: the record handle_conn is inserting, or None
    g_log,              \* history: g_log[c], what the serving loop of c did, in order
    tampers,            \* history: frames the network has corrupted or repeated
    pkt_timestamp,      \* the timestamp 'sending set on the packet it stamped last
    limits,             \* the bounds of the specification in force
    frame_io,           \* a payload on its way through send, the stream and recv
    report,             \* scanner: the advertisement report the handler took last
    scan_pc,            \* scanner: the report handler runs, or it has panicked
    parse_io,           \* parse_ruuvi_raw: its arguments and its result
    conv_io,            \* gateway: the arguments and the result of a conversion
    led_pc,             \* LED task: its position in task()
    event,              \* LED task: event, the LedEvent it holds, or None
    led_data,           \* LED task: data, the colour of the write in progress
    led                 \* the colour the LED shows

scanVars == <<sequence_numbers, channel, led_channel, arrivals, forwarded, received>>

listenerVars == <<auth, l_pc, backoff_ms, time_reference, conn, l_tp, l_open, retry, sleeps>>

gatewayVars == <<g_pc, g_tp, rows, g_fail, accepting, g_data, g_log>>

netVars == <<l2g, g2l, wire>>

\* the variables of the byte-level parts (Parts 4 to 7)
codecVars == <<frame_io, report, scan_pc, parse_io, conv_io>>

\* the variables of the LED task (Part 8)
ledVars == <<led_pc, event, led_data, led>>

envVars == <<tampers, limits, pkt_timestamp, codecVars, ledVars>>

sessVars == <<listenerVars, gatewayVars, netVars, envVars>>

vars == <<scanVars, sessVars>>

Last(s) == s[Len(s)]

(***************************************************************************)
(* embassy_sync::channel                                                   *)
(***************************************************************************)
\* variant of a channel that never reports itself full
is_full_Never(ch, cap) == FALSE

\* Channel::is_full
is_full(ch, cap) == Len(ch) >= cap

\* try_send: Err(Full) leaves the channel as it is
try_send(ch, cap, x) == IF Len(ch) < cap THEN Append(ch, x) ELSE ch

(***************************************************************************)
(* Handler: the deduplication table                                        *)
(***************************************************************************)
\* variant without the comparison: every report counts as new
is_new_seq_NoCheck(map, mac, seq) == TRUE

is_new_seq(map, mac, seq) == mac \notin DOMAIN map \/ map[mac] # seq

\* variant that never overwrites a stored sequence number
upsert_seq_NoUpdate(map, mac, seq) ==
    IF mac \in DOMAIN map THEN map
    ELSE IF Cardinality(DOMAIN map) < SEQ_MAP_CAP
         THEN [m \in DOMAIN map \cup {mac} |-> IF m = mac THEN seq ELSE map[m]]
         ELSE map

\* variant of a table that grows beyond its capacity
upsert_seq_Grow(map, mac, seq) ==
    [m \in DOMAIN map \cup {mac} |-> IF m = mac THEN seq ELSE map[m]]

\* FnvIndexMap::insert: update in place, append when there is room,
\* Err((key, value)) when the map is full (only logged)
upsert_seq(map, mac, seq) ==
    IF mac \in DOMAIN map THEN [map EXCEPT ![mac] = seq]
    ELSE IF Cardinality(DOMAIN map) < SEQ_MAP_CAP
         THEN [m \in DOMAIN map \cup {mac} |-> IF m = mac THEN seq ELSE map[m]]
         ELSE map

Record(mac, seq) == [mac |-> mac, seq |-> seq]

\* variant without the clear
ClearIfFull_Never(ch) == ch

\* the channel after the handler's "if full, clear" step
ClearIfFull(ch) == IF is_full(ch, CHANNEL_CAP) THEN <<>> ELSE ch

\* The Ok arm of on_ext_adv_reports for a report that parsed to (mac, seq)
Handle(mac, seq) ==
    LET ch1    == ClearIfFull(channel)
        is_new == is_new_seq(sequence_numbers, mac, seq)
    IN  /\ sequence_numbers' = upsert_seq(sequence_numbers, mac, seq)
        /\ arrivals' = Append(arrivals, Record(mac, seq))
        /\ IF ~is_new
           THEN /\ led_channel' = try_send(led_channel, LED_CAP, "BleDuplicate")
                /\ channel' = ch1
                /\ forwarded' = forwarded
           ELSE /\ channel' = try_send(ch1, CHANNEL_CAP, Record(mac, seq))
                /\ forwarded' = IF Len(ch1) < CHANNEL_CAP
                                THEN Append(forwarded, Record(mac, seq))
                                ELSE forwarded
                /\ led_channel' = try_send(led_channel, LED_CAP, "BleOk")
        /\ received' = received

\* One iteration of on_ext_adv_reports for a report that parsed to (mac, seq)
OnReport(mac, seq) == Handle(mac, seq) /\ UNCHANGED sessVars

\* receiver.receive() of the sender task: takes the oldest record
Receive ==
    /\ received < MaxReceives
    /\ channel # <<>>
    /\ channel' = Tail(channel)
    /\ received' = received + 1
    /\ UNCHANGED <<sequence_numbers, led_channel, arrivals, forwarded>>
    /\ UNCHANGED sessVars

InitScan ==
    /\ sequence_numbers = <<>>
    /\ channel = <<>>
    /\ led_channel = <<>>
    /\ arrivals = <<>>
    /\ forwarded = <<>>
    /\ received = 0

\* an arbitrary parsed report
Report ==
    /\ Len(arrivals) < MaxReports
    /\ \E mac \in Macs, seq \in 1..MaxSeq : OnReport(mac, seq)

\* a report of a sensor that advertises its current measurement again or
\* its next one (the measurement sequence is a counter kept by the sensor)
NumDups == Len(arrivals) - Len(forwarded)

SensorReport ==
    /\ Len(arrivals) < MaxSensorReports
    /\ \E seq \in IF "M" \in DOMAIN sequence_numbers
                  THEN {sequence_numbers["M"], sequence_numbers["M"] + 1}
                  ELSE {1} :
          /\ ("M" \in DOMAIN sequence_numbers /\ seq = sequence_numbers["M"])
                => NumDups < MaxDups
          /\ OnReport("M", seq)

\* A fleet of sensors, numbered as they are first heard.  A sensor the table
\* has no room for advertises again, the same measurement or the next.
Joined == {arrivals[i].mac : i \in 1..Len(arrivals)}

FleetReport ==
    /\ Len(arrivals) < MaxFleetReports
    /\ \E mac \in 1..MaxFleet, seq \in 1..MaxSeq :
          /\ \/ mac = Cardinality(Joined) + 1 /\ seq = 1
             \/ mac \in Joined \ DOMAIN sequence_numbers
          /\ OnReport(mac, seq)

(***************************************************************************)
(* Noise_XXpsk3 (snow) and the framed stream                               *)
(*                                                                         *)
(* A frame is what one send() writes: the 2-byte length and the bytes.     *)
(* kind "handshake": a handshake message; the PSK enters message 3 only    *)
(* (psk3), so key holds the writer's PSK there and None in messages 1, 2.  *)
(* kind "transport": the output of TransportState::write_message, bound to *)
(* the session key (connection and PSK) and to the writer's nonce.         *)
(* kind "plain": bytes written to the socket as they are.                  *)
(***************************************************************************)
Max(a, b) == IF a > b THEN a ELSE b

Conns == 1..Max(MaxConns, Max(MaxStreamConns, MaxServerConns))

Min(a, b) == IF a < b THEN a ELSE b

EmptyBody == [type |-> "empty", val |-> None]

\* time.to_be_bytes(): the 8 bytes of the u64 Unix milliseconds
TimeBody == [type |-> "u64_be_8_bytes", val |-> "unix_ms"]

RecordBody(rec) == [type |-> "record", val |-> rec]

HandshakeMsg(n, psk) ==
    [kind |-> "handshake", msg |-> n, enc |-> FALSE, key |-> psk,
     nonce |-> 0, body |-> EmptyBody]

PlainFrame(body) ==
    [kind |-> "plain", msg |-> 0, enc |-> FALSE, key |-> None,
     nonce |-> 0, body |-> body]

\* a frame whose length prefix is above the 1024 bytes of the listener's
\* receive buffers, whatever follows it
OversizeFrame ==
    [kind |-> "oversize", msg |-> 0, enc |-> FALSE, key |-> None,
     nonce |-> 0, body |-> EmptyBody]

\* recv of the listener: rx_buffer[..msg_len] is out of range for such a
\* frame, and the slice index panics
RecvPanics(f) == f.kind = "oversize"

into_transport_mode(c, psk) == [key |-> <<c, psk>>, tx |-> 0, rx |-> 0]

write_message(tp, body) ==
    [kind |-> "transport", msg |-> 0, enc |-> TRUE, key |-> tp.key,
     nonce |-> tp.tx, body |-> body]

read_message_ok(tp, f) ==
    f.kind = "transport" /\ f.key = tp.key /\ f.nonce = tp.rx

\* variant of a cipher state whose nonce stays as it is
AfterWrite_SameNonce(tp) == tp

AfterWrite(tp) == [tp EXCEPT !.tx = @ + 1]

AfterRead(tp) == [tp EXCEPT !.rx = @ + 1]

(***************************************************************************)
(* Listener: sender::run                                                   *)
(***************************************************************************)
\* variant without the cap
Backoff_NoCap(b) == b * 2

\* backoff_ms = (backoff_ms * 2).min(MAX_BACKOFF_SECS * 1000)
Backoff(b) == Min(b * 2, MAX_BACKOFF_SECS * 1000)

NoRetry == [fail |-> "none", slept |-> FALSE, from |-> 0]

Failed(stage) == [fail |-> stage, slept |-> FALSE, from |-> backoff_ms]

CanFail == Len(sleeps) < limits.fails

\* the listener writes frame f on its socket; what is written to a stream
\* the gateway has dropped reaches nobody
LWrite(f) ==
    /\ l2g' = IF g_pc[conn] = "closed" THEN l2g
              ELSE [l2g EXCEPT ![conn] = Append(@, f)]
    /\ wire' = [wire EXCEPT ![conn] = Append(@, [from |-> "listener", frame |-> f])]
    /\ g2l' = g2l

\* the listener reads the next frame of its socket
LRead ==
    /\ g2l' = [g2l EXCEPT ![conn] = Tail(@)]
    /\ UNCHANGED <<l2g, wire>>

\* Both ends have left connection c: the listener holds a later connection
\* (cur) and handle_conn of c has returned (pcs).  The histories wire,
\* g_log and g_fail are kept for the connections that are not over.
Over(c, cur, pcs) == c < cur /\ pcs[c] = "closed"

\* socket.connect(server) returned Ok; the gateway's accept loop spawns
\* handle_conn for the connection
LConnectOk ==
    /\ l_pc = "connect"
    /\ accepting
    /\ conn < limits.conns
    /\ conn' = conn + 1
    /\ l_open' = [l_open EXCEPT ![conn + 1] = TRUE]
    /\ g_pc' = [g_pc EXCEPT ![conn + 1] = "recv_e"]
    /\ l_pc' = "hs_write_e"
    /\ retry' = NoRetry
    /\ wire' = [c \in Conns |-> IF Over(c, conn + 1, g_pc) THEN <<>> ELSE wire[c]]
    /\ g_log' = [c \in Conns |-> IF Over(c, conn + 1, g_pc) THEN <<>> ELSE g_log[c]]
    /\ g_fail' = [c \in Conns |-> IF Over(c, conn + 1, g_pc) THEN "none" ELSE g_fail[c]]
    /\ UNCHANGED <<auth, backoff_ms, time_reference, l_tp, sleeps>>
    /\ UNCHANGED <<g_tp, rows, accepting, g_data, l2g, g2l, scanVars>>
    /\ UNCHANGED envVars

\* socket.connect(server) returned Err
LConnectFail ==
    /\ l_pc = "connect"
    /\ CanFail
    /\ l_pc' = "sleep_connect"
    /\ retry' = Failed("connect")
    /\ UNCHANGED <<auth, backoff_ms, time_reference, conn, l_tp, l_open, sleeps>>
    /\ UNCHANGED <<gatewayVars, netVars, scanVars>>
    /\ UNCHANGED envVars

\* the loop iteration ends: its socket and its TransportState are dropped,
\* what the socket had not read yet is gone
DropSocket ==
    /\ l_open' = [c \in Conns |-> FALSE]
    /\ l_tp' = None
    /\ g2l' = [c \in Conns |-> <<>>]
    /\ UNCHANGED <<l2g, wire>>

\* Timer::after(backoff_ms), then the increase and the next loop iteration
BackoffSleep(at) ==
    /\ l_pc = at
    /\ sleeps' = Append(sleeps, backoff_ms)
    /\ backoff_ms' = Backoff(backoff_ms)
    /\ retry' = [retry EXCEPT !.slept = TRUE]
    /\ DropSocket
    /\ l_pc' = "connect"
    /\ UNCHANGED <<auth, time_reference, conn>>
    /\ UNCHANGED <<gatewayVars, scanVars>>
    /\ UNCHANGED envVars

LSleepConnect == BackoffSleep("sleep_connect")

LSleepHandshake == BackoffSleep("sleep_handshake")

LSleepReconnect == BackoffSleep("sleep_reconnect")

\* noise_handshake: -> e
LHsWriteE ==
    /\ l_pc = "hs_write_e"
    /\ LWrite(HandshakeMsg(1, None))
    /\ l_pc' = "hs_read"
    /\ UNCHANGED <<auth, backoff_ms, time_reference, conn, l_tp, l_open, retry, sleeps>>
    /\ UNCHANGED <<gatewayVars, scanVars>>
    /\ UNCHANGED envVars

\* noise_handshake: <- e, ee, s, es
LHsRead ==
    /\ l_pc = "hs_read"
    /\ g2l[conn] # <<>>
    /\ LRead
    /\ LET f == Head(g2l[conn])
       IN  IF RecvPanics(f)
           THEN l_pc' = "panicked" /\ retry' = retry
           ELSE IF f.kind = "handshake" /\ f.msg = 2
           THEN l_pc' = "hs_write_s" /\ retry' = retry
           ELSE l_pc' = "sleep_handshake" /\ retry' = Failed("handshake")
    /\ UNCHANGED <<auth, backoff_ms, time_reference, conn, l_tp, l_open, sleeps>>
    /\ UNCHANGED <<gatewayVars, scanVars>>
    /\ UNCHANGED envVars

\* variant that starts 'sending right after the handshake
LHsWriteS_SkipSync ==
    /\ l_pc = "hs_write_s"
    /\ LWrite(HandshakeMsg(3, auth))
    /\ l_tp' = into_transport_mode(conn, auth)
    /\ l_pc' = "sending"
    /\ UNCHANGED <<auth, backoff_ms, time_reference, conn, l_open, retry, sleeps>>
    /\ UNCHANGED <<gatewayVars, scanVars>>
    /\ UNCHANGED envVars

\* noise_handshake: -> s, se (and the PSK), then into_transport_mode
LHsWriteS ==
    /\ l_pc = "hs_write_s"
    /\ LWrite(HandshakeMsg(3, auth))
    /\ l_tp' = into_transport_mode(conn, auth)
    /\ l_pc' = "sync_send"
    /\ UNCHANGED <<auth, backoff_ms, time_reference, conn, l_open, retry, sleeps>>
    /\ UNCHANGED <<gatewayVars, scanVars>>
    /\ UNCHANGED envVars

\* a send or recv of noise_handshake returned Err (socket error, timeout)
LHsFail ==
    /\ l_pc \in {"hs_write_e", "hs_read", "hs_write_s"}
    /\ CanFail
    /\ l_pc' = "sleep_handshake"
    /\ retry' = Failed("handshake")
    /\ UNCHANGED <<auth, backoff_ms, time_reference, conn, l_tp, l_open, sleeps>>
    /\ UNCHANGED <<gatewayVars, netVars, scanVars>>
    /\ UNCHANGED envVars

\* pkt.timestamp before 'sending has set it
NoStamp == [set |-> FALSE]

\* the frame sync_time sends to request the time: send(socket, &[])
TimeRequest(tp) == PlainFrame(EmptyBody)

\* variant that does not wait for the reply
LSyncSend_NoReply ==
    /\ l_pc = "sync_send"
    /\ LWrite(TimeRequest(l_tp))
    /\ l_pc' = "sending"
    /\ UNCHANGED <<auth, backoff_ms, time_reference, conn, l_tp, l_open, retry, sleeps>>
    /\ UNCHANGED <<gatewayVars, scanVars>>
    /\ UNCHANGED envVars

\* sync_time: request the time
LSyncSend ==
    /\ l_pc = "sync_send"
    /\ LWrite(TimeRequest(l_tp))
    /\ l_pc' = "sync_recv"
    /\ UNCHANGED <<auth, backoff_ms, time_reference, conn, l_tp, l_open, retry, sleeps>>
    /\ UNCHANGED <<gatewayVars, scanVars>>
    /\ UNCHANGED envVars

\* try_continue!(sync_time(..)) on Err: continue, the socket is dropped
SyncFailed ==
    /\ l_pc' = "connect"
    /\ retry' = Failed("timesync")
    /\ DropSocket

\* let mut time_reference: Option<(Instant, u64)> = None
NoReference == [session |-> 0]

\* variant that keeps a reference point it already has
StoreReference_KeepFirst(old, c) == IF old = NoReference THEN [session |-> c] ELSE old

\* *time_reference = Some((ref_t, adjusted_timestamp)): the reference point
\* of the session's round trip replaces the one held before
StoreReference(old, c) == [session |-> c]

\* sync_time: receive and decrypt the reply, store the reference point
LSyncRecv ==
    /\ l_pc = "sync_recv"
    /\ g2l[conn] # <<>>
    /\ LET f == Head(g2l[conn])
       IN  IF RecvPanics(f)
           THEN /\ LRead
                /\ l_pc' = "panicked"
                /\ UNCHANGED <<time_reference, l_tp, retry, l_open>>
           ELSE IF read_message_ok(l_tp, f)
           THEN /\ l_pc' = "sending"
                /\ LRead
                /\ l_tp' = AfterRead(l_tp)
                /\ time_reference' = StoreReference(time_reference, conn)
                /\ UNCHANGED <<retry, l_open>>
           ELSE /\ SyncFailed
                /\ UNCHANGED time_reference
    /\ UNCHANGED <<auth, backoff_ms, conn, sleeps>>
    /\ UNCHANGED <<gatewayVars, scanVars>>
    /\ UNCHANGED envVars

\* the send or the recv of sync_time returned Err
LSyncFail ==
    /\ l_pc \in {"sync_send", "sync_recv"}
    /\ SyncFailed
    /\ UNCHANGED <<auth, backoff_ms, time_reference, conn, sleeps>>
    /\ UNCHANGED <<gatewayVars, scanVars>>
    /\ UNCHANGED envVars

\* the record with the timestamp computed from time_reference
Stamped(rec) == [rec |-> rec, anchor |-> time_reference]

\* variant that writes the serialized record without encrypting it
EncryptRecord_Plain(tp, rec) == PlainFrame(RecordBody(Stamped(rec)))

\* tp.write_message(new_payload, &mut tx_buffer)
EncryptRecord(tp, rec) == write_message(tp, RecordBody(Stamped(rec)))

\* variant without the reset
AfterSendOk_NoReset(b) == b

\* after a successful send: backoff_ms = BASE_BACKOFF_MS
AfterSendOk(b) == BASE_BACKOFF_MS

\* 'sending: receive a record, stamp, serialize, encrypt and send it
LSendOk ==
    /\ l_pc = "sending"
    /\ channel # <<>>
    /\ channel' = Tail(channel)
    /\ received' = received + 1
    /\ LWrite(EncryptRecord(l_tp, Head(channel)))
    /\ l_tp' = AfterWrite(l_tp)
    /\ led_channel' = try_send(led_channel, LED_CAP, "TcpOk")
    /\ backoff_ms' = AfterSendOk(backoff_ms)
    /\ sleeps' = <<>>
    /\ UNCHANGED <<auth, l_pc, time_reference, conn, l_open, retry>>
    /\ UNCHANGED <<gatewayVars, sequence_numbers, arrivals, forwarded>>
    /\ UNCHANGED envVars

\* 'sending: send(..) returned Err: break 'sending
LSendFail ==
    /\ l_pc = "sending"
    /\ channel # <<>>
    /\ CanFail
    /\ channel' = Tail(channel)
    /\ received' = received + 1
    /\ l_tp' = AfterWrite(l_tp)
    /\ l_pc' = "sleep_reconnect"
    /\ retry' = Failed("send")
    /\ UNCHANGED <<auth, backoff_ms, time_reference, conn, l_open, sleeps>>
    /\ UNCHANGED <<gatewayVars, netVars>>
    /\ UNCHANGED <<sequence_numbers, led_channel, arrivals, forwarded>>
    /\ UNCHANGED envVars

\* variant that puts the record it could not send back on the channel
LSendSkip_Requeue ==
    /\ l_pc = "sending"
    /\ channel # <<>>
    /\ channel' = Append(Tail(channel), Head(channel))
    /\ received' = received + 1
    /\ UNCHANGED <<listenerVars, gatewayVars, netVars>>
    /\ UNCHANGED <<sequence_numbers, led_channel, arrivals, forwarded>>
    /\ UNCHANGED envVars

\* 'sending: postcard::to_slice or write_message returned Err: the record
\* is skipped (try_continue! continues 'sending)
LSendSkip ==
    /\ l_pc = "sending"
    /\ channel # <<>>
    /\ channel' = Tail(channel)
    /\ received' = received + 1
    /\ UNCHANGED <<listenerVars, gatewayVars, netVars>>
    /\ UNCHANGED <<sequence_numbers, led_channel, arrivals, forwarded>>
    /\ UNCHANGED envVars

(***************************************************************************)
(* Gateway: handle_conn, one task per accepted connection                  *)
(***************************************************************************)
Stage(pc) ==
    IF pc \in {"recv_e", "send_e_ee_s_es", "recv_s_se"} THEN "handshake"
    ELSE IF pc \in {"recv_time_request", "send_time"} THEN "timeserve"
    ELSE "serve"

GWrite(c, f) ==
    /\ g2l' = IF l_open[c] THEN [g2l EXCEPT ![c] = Append(@, f)] ELSE g2l
    /\ wire' = [wire EXCEPT ![c] = Append(@, [from |-> "gateway", frame |-> f])]
    /\ l2g' = l2g

GRead(c) ==
    /\ l2g' = [l2g EXCEPT ![c] = Tail(@)]
    /\ UNCHANGED <<g2l, wire>>

\* variant in which the handler starts over with a new handshake
GClose_Restart(c, log) ==
    /\ g_pc' = [g_pc EXCEPT ![c] = "recv_e"]
    /\ g_fail' = [g_fail EXCEPT ![c] = IF c < conn THEN "none" ELSE Stage(g_pc[c])]
    /\ g_log' = [g_log EXCEPT ![c] = IF c < conn THEN <<>> ELSE log]
    /\ wire' = [wire EXCEPT ![c] = IF c < conn THEN <<>> ELSE @]
    /\ g_tp' = [g_tp EXCEPT ![c] = None]
    /\ g_data' = [g_data EXCEPT ![c] = None]
    /\ l2g' = [l2g EXCEPT ![c] = <<>>]
    /\ g2l' = g2l

\* handle_conn returns Err: the task ends, its stream and its
\* TransportState are dropped, what the stream had not read yet is gone.
\* log is what the serving loop of c has done by then.
GClose(c, log) ==
    /\ g_pc' = [g_pc EXCEPT ![c] = "closed"]
    /\ g_fail' = [g_fail EXCEPT ![c] = IF c < conn THEN "none" ELSE Stage(g_pc[c])]
    /\ g_log' = [g_log EXCEPT ![c] = IF c < conn THEN <<>> ELSE log]
    /\ wire' = [wire EXCEPT ![c] = IF c < conn THEN <<>> ELSE @]
    /\ g_tp' = [g_tp EXCEPT ![c] = None]
    /\ g_data' = [g_data EXCEPT ![c] = None]
    /\ l2g' = [l2g EXCEPT ![c] = <<>>]
    /\ g2l' = g2l

\* <- e
GwRecvE(c) ==
    /\ g_pc[c] = "recv_e"
    /\ l2g[c] # <<>>
    /\ LET f == Head(l2g[c])
       IN  IF f.kind = "handshake" /\ f.msg = 1
           THEN /\ GRead(c)
                /\ g_pc' = [g_pc EXCEPT ![c] = "send_e_ee_s_es"]
                /\ UNCHANGED <<g_fail, g_tp, g_data, g_log>>
           ELSE GClose(c, g_log[c])
    /\ UNCHANGED <<rows, accepting, listenerVars, scanVars, envVars>>

\* -> e, ee, s, es
GwSendHs2(c) ==
    /\ g_pc[c] = "send_e_ee_s_es"
    /\ GWrite(c, HandshakeMsg(2, None))
    /\ g_pc' = [g_pc EXCEPT ![c] = "recv_s_se"]
    /\ UNCHANGED <<g_tp, rows, g_fail, accepting, g_data, g_log>>
    /\ UNCHANGED <<listenerVars, scanVars, envVars>>

\* variant of a responder that does not mix the PSK into message 3
ReadHs3Ok_NoPsk(f) == f.kind = "handshake" /\ f.msg = 3

\* noise.read_message of "s, se" by the responder built with psk(3, &PSK_KEY)
ReadHs3Ok(f) == f.kind = "handshake" /\ f.msg = 3 /\ f.key = PSK_KEY

\* <- s, se, then into_transport_mode
GwRecvHs3(c) ==
    /\ g_pc[c] = "recv_s_se"
    /\ l2g[c] # <<>>
    /\ IF ReadHs3Ok(Head(l2g[c]))
       THEN /\ GRead(c)
            /\ g_pc' = [g_pc EXCEPT ![c] = "recv_time_request"]
            /\ g_tp' = [g_tp EXCEPT ![c] = into_transport_mode(c, PSK_KEY)]
            /\ UNCHANGED <<g_fail, g_data, g_log>>
       ELSE GClose(c, g_log[c])
    /\ UNCHANGED <<rows, accepting, listenerVars, scanVars, envVars>>

\* variant that answers without waiting for the request
GwRecvTimeRequest_NoWait(c) ==
    /\ g_pc[c] = "recv_time_request"
    /\ g_pc' = [g_pc EXCEPT ![c] = "send_time"]
    /\ UNCHANGED <<g_tp, rows, g_fail, accepting, g_data, g_log>>
    /\ UNCHANGED <<netVars, listenerVars, scanVars, envVars>>

\* let _ = recv(..): any frame is taken as the time request
GwRecvTimeRequest(c) ==
    /\ g_pc[c] = "recv_time_request"
    /\ l2g[c] # <<>>
    /\ GRead(c)
    /\ g_pc' = [g_pc EXCEPT ![c] = "send_time"]
    /\ UNCHANGED <<g_tp, rows, g_fail, accepting, g_data, g_log>>
    /\ UNCHANGED <<listenerVars, scanVars, envVars>>

\* variant that sends the time twice
TimeReplies_Twice(f) == <<f, f>>

\* the frames handle_conn writes to serve the time: one
TimeReplies(f) == <<f>>

\* transport.write_message(&time.to_be_bytes()) and send
GwSendTime(c) ==
    /\ g_pc[c] = "send_time"
    /\ LET out == TimeReplies(write_message(g_tp[c], TimeBody))
       IN  /\ g2l' = IF l_open[c] THEN [g2l EXCEPT ![c] = @ \o out] ELSE g2l
           /\ wire' = [wire EXCEPT ![c] =
                          @ \o [i \in 1..Len(out) |-> [from |-> "gateway", frame |-> out[i]]]]
           /\ l2g' = l2g
    /\ g_tp' = [g_tp EXCEPT ![c] = AfterWrite(@)]
    /\ g_pc' = [g_pc EXCEPT ![c] = "serving"]
    /\ UNCHANGED <<rows, g_fail, accepting, g_data, g_log>>
    /\ UNCHANGED <<listenerVars, scanVars, envVars>>

LogEntry(rec, out) == [rec |-> rec, out |-> out]

\* variant whose insert runs in a task of its own: the loop reads on
ServeReady_Spawned(c) == g_pc[c] \in {"serving", "inserting"}

\* the serving loop is at its recv: the insert of the frame before it, if
\* any, has been awaited
ServeReady(c) == g_pc[c] = "serving"

\* variant that logs a frame it cannot decrypt and reads on
GwServe_SkipUndecryptable(c) ==
    /\ ServeReady(c)
    /\ l2g[c] # <<>>
    /\ LET f == Head(l2g[c])
       IN  /\ GRead(c)
           /\ IF read_message_ok(g_tp[c], f)
              THEN /\ g_tp' = [g_tp EXCEPT ![c] = AfterRead(@)]
                   /\ g_pc' = [g_pc EXCEPT ![c] = "inserting"]
                   /\ g_data' = [g_data EXCEPT ![c] = f.body.val]
                   /\ g_log' = [g_log EXCEPT ![c] =
                                   Append(@, LogEntry(f.body.val, "inserting"))]
              ELSE /\ g_log' = [g_log EXCEPT ![c] =
                                   Append(@, LogEntry(None, "decrypt_error"))]
                   /\ UNCHANGED <<g_tp, g_pc, g_data>>
    /\ UNCHANGED <<rows, g_fail, accepting, listenerVars, scanVars, envVars>>

\* the serving loop: recv, decrypt, deserialize.  A frame that does not
\* decrypt returns Err; a deserialization error is logged and the loop
\* goes on; a record goes to its insert.
GwServe(c) ==
    /\ ServeReady(c)
    /\ l2g[c] # <<>>
    /\ LET f == Head(l2g[c])
       IN  IF read_message_ok(g_tp[c], f)
           THEN /\ GRead(c)
                /\ g_tp' = [g_tp EXCEPT ![c] = AfterRead(@)]
                /\ \E parsed \in BOOLEAN :
                      IF parsed
                      THEN /\ g_pc' = [g_pc EXCEPT ![c] = "inserting"]
                           /\ g_data' = [g_data EXCEPT ![c] = f.body.val]
                           /\ g_log' = [g_log EXCEPT ![c] =
                                           Append(@, LogEntry(f.body.val, "inserting"))]
                      ELSE /\ g_log' = [g_log EXCEPT ![c] =
                                           Append(@, LogEntry(f.body.val, "parse_error"))]
                           /\ UNCHANGED <<g_pc, g_data>>
                /\ UNCHANGED g_fail
           ELSE GClose(c, Append(g_log[c], LogEntry(None, "decrypt_error")))
    /\ UNCHANGED <<rows, accepting, listenerVars, scanVars, envVars>>

\* variant that returns the insert error
GwInsert_ErrReturns(c) ==
    /\ g_pc[c] = "inserting"
    /\ \E ok \in BOOLEAN :
          IF ok
          THEN /\ rows' = [rows EXCEPT ![c] = Append(@, g_data[c])]
               /\ g_log' = [g_log EXCEPT ![c] = [@ EXCEPT ![Len(@)].out = "inserted"]]
               /\ g_pc' = [g_pc EXCEPT ![c] = "serving"]
               /\ g_data' = [g_data EXCEPT ![c] = None]
               /\ UNCHANGED <<g_tp, g_fail, netVars>>
          ELSE /\ GClose(c, [g_log[c] EXCEPT ![Len(g_log[c])].out = "insert_error"])
               /\ UNCHANGED rows
    /\ UNCHANGED <<accepting, listenerVars, scanVars, envVars>>

\* insert_data_e1 / insert_data_v2 is awaited: the row is inserted, or the
\* error is logged; then the loop continues with its next recv
GwInsert(c) ==
    /\ g_pc[c] = "inserting"
    /\ \E ok \in BOOLEAN :
          /\ rows' = IF ok THEN [rows EXCEPT ![c] = Append(@, g_data[c])] ELSE rows
          /\ g_log' = [g_log EXCEPT ![c] =
                          [@ EXCEPT ![Len(@)].out =
                              IF ok THEN "inserted" ELSE "insert_error"]]
    /\ g_pc' = [g_pc EXCEPT ![c] = "serving"]
    /\ g_data' = [g_data EXCEPT ![c] = None]
    /\ UNCHANGED <<g_tp, g_fail, accepting, netVars, listenerVars, scanVars, envVars>>

\* a recv or send of handle_conn returned Err (reset, end of stream)
GwIoError(c) ==
    /\ g_pc[c] \notin {"idle", "closed", "inserting"}
    /\ GClose(c, g_log[c])
    /\ UNCHANGED <<rows, accepting, listenerVars, scanVars, envVars>>

\* listener.accept() returned Err: tcp_server returns it with `?`, main
\* returns it, and the runtime ends with every task it had spawned
AcceptFail ==
    /\ accepting
    /\ accepting' = FALSE
    /\ g_pc' = [c \in Conns |-> IF g_pc[c] = "idle" THEN "idle" ELSE "closed"]
    /\ g_fail' = [c \in Conns |-> IF g_pc[c] \in {"idle", "closed"} THEN g_fail[c]
                                  ELSE IF c < conn THEN "none" ELSE "shutdown"]
    /\ g_log' = [c \in Conns |-> IF c < conn THEN <<>> ELSE g_log[c]]
    /\ wire' = [c \in Conns |-> IF c < conn THEN <<>> ELSE wire[c]]
    /\ g_tp' = [c \in Conns |-> None]
    /\ g_data' = [c \in Conns |-> None]
    /\ l2g' = [c \in Conns |-> <<>>]
    /\ UNCHANGED <<rows, g2l, listenerVars, scanVars, envVars>>

(***************************************************************************)
(* The network between the two: what recv reads is what arrives            *)
(***************************************************************************)
\* a ciphertext in flight to the gateway is corrupted
NetTamper(c) ==
    /\ tampers < limits.tampers
    /\ \E i \in 1..Len(l2g[c]) :
          /\ l2g[c][i].kind = "transport"
          /\ l2g' = [l2g EXCEPT ![c][i] = [@ EXCEPT !.kind = "corrupt", !.key = None]]
    /\ tampers' = tampers + 1
    /\ UNCHANGED <<g2l, wire, limits, pkt_timestamp, ledVars, codecVars, listenerVars, gatewayVars, scanVars>>

\* a ciphertext in flight to the gateway arrives a second time
NetReplay(c) ==
    /\ tampers < limits.tampers
    /\ l2g[c] # <<>>
    /\ Head(l2g[c]).kind = "transport"
    /\ l2g' = [l2g EXCEPT ![c] = <<Head(@)>> \o @]
    /\ tampers' = tampers + 1
    /\ UNCHANGED <<g2l, wire, limits, pkt_timestamp, ledVars, codecVars, listenerVars, gatewayVars, scanVars>>

\* bytes from elsewhere reach the socket of the listener ahead of what the
\* gateway wrote: a length prefix above 1024
NetOversize(c) ==
    /\ tampers < limits.tampers
    /\ l_open[c]
    /\ g2l' = [g2l EXCEPT ![c] = <<OversizeFrame>> \o @]
    /\ tampers' = tampers + 1
    /\ UNCHANGED <<l2g, wire, limits, pkt_timestamp, ledVars, codecVars, listenerVars, gatewayVars, scanVars>>

SessionLimits ==
    [conns |-> MaxConns, fails |-> MaxFailStreak, reports |-> MaxSessReports,
     tampers |-> 0]

StreamLimits ==
    [conns |-> MaxStreamConns, fails |-> MaxStreamFails,
     reports |-> MaxStreamReports, tampers |-> MaxTampers]

ServerLimits ==
    [conns |-> MaxServerConns, fails |-> MaxServerFails,
     reports |-> MaxServerReports, tampers |-> 0]

\* the sender task and the gateway after start
InitTasks ==
    /\ auth \in Psks
    /\ l_pc = "connect"
    /\ backoff_ms = BASE_BACKOFF_MS
    /\ time_reference = NoReference
    /\ conn = 0
    /\ l_tp = None
    /\ l_open = [c \in Conns |-> FALSE]
    /\ g_pc = [c \in Conns |-> "idle"]
    /\ g_tp = [c \in Conns |-> None]
    /\ l2g = [c \in Conns |-> <<>>]
    /\ g2l = [c \in Conns |-> <<>>]
    /\ rows = [c \in Conns |-> <<>>]
    /\ wire = [c \in Conns |-> <<>>]
    /\ g_fail = [c \in Conns |-> "none"]
    /\ retry = NoRetry
    /\ sleeps = <<>>
    /\ accepting = TRUE
    /\ g_data = [c \in Conns |-> None]
    /\ g_log = [c \in Conns |-> <<>>]
    /\ tampers = 0
    /\ pkt_timestamp = NoStamp
    /\ frame_io = NoFrame
    /\ report = NoReport
    /\ scan_pc = "scanning"
    /\ parse_io = NoParse
    /\ conv_io = NoConversion
    /\ led_pc = "receive"
    /\ event = None
    /\ led_data = "BLACK"
    /\ led = "BLACK"

InitSession == InitTasks /\ limits = SessionLimits

\* the scanner hands over a new record
SessReport ==
    /\ Len(arrivals) < limits.reports
    /\ OnReport("M", Len(arrivals) + 1)

Listener ==
    \/ LConnectOk \/ LConnectFail
    \/ LSleepConnect \/ LSleepHandshake \/ LSleepReconnect
    \/ LHsWriteE \/ LHsRead \/ LHsWriteS \/ LHsFail
    \/ LSyncSend \/ LSyncRecv \/ LSyncFail
    \/ LSendOk \/ LSendFail \/ LSendSkip

Gateway ==
    \E c \in Conns :
        \/ GwRecvE(c) \/ GwSendHs2(c) \/ GwRecvHs3(c)
        \/ GwRecvTimeRequest(c) \/ GwSendTime(c) \/ GwServe(c) \/ GwInsert(c)
        \/ GwIoError(c)

Network == \E c \in Conns : NetTamper(c) \/ NetReplay(c)

Init == InitScan /\ InitSession

Next == Report \/ Receive

Spec == Init /\ [][Next]_vars

NextFleet == FleetReport \/ Receive

SpecFleet == Init /\ [][NextFleet]_vars

NextOverflow == SensorReport \/ Receive

SpecOverflow == Init /\ [][NextOverflow]_vars

NextSession == SessReport \/ Listener \/ Gateway

SpecSession == Init /\ [][NextSession]_vars

\* one session on a network that corrupts or repeats frames
InitStream == InitScan /\ InitTasks /\ limits = StreamLimits

NextStream == SessReport \/ Listener \/ Gateway \/ Network

SpecStream == InitStream /\ [][NextStream]_vars

\* the gateway process with its accept loop and several connections
InitServer == InitScan /\ InitTasks /\ limits = ServerLimits

NextServer == SessReport \/ Listener \/ Gateway \/ AcceptFail

SpecServer == InitServer /\ [][NextServer]_vars

\* the sender task on a network that delivers frames of any length, with
\* the fairness of the executor: a step of the sender that can be taken is
\* taken (timers expire, socket operations complete)
MaxRunConns == 2
MaxRunFails == 1
MaxRunReports == 1
MaxOversize == 1

RunLimits ==
    [conns |-> MaxRunConns, fails |-> MaxRunFails, reports |-> MaxRunReports,
     tampers |-> MaxOversize]

InitRun == InitScan /\ InitTasks /\ limits = RunLimits

NextRun == SessReport \/ Listener \/ Gateway \/ (\E c \in Conns : NetOversize(c))

\* every step of the sender moves its position or takes a record
SpecRun == InitRun /\ [][NextRun]_vars /\ WF_<<l_pc, received>>(Listener)

(***************************************************************************)
(* The clock arithmetic of sync_time and of 'sending                       *)
(*                                                                         *)
(* Instant and Duration count ticks of embassy-time (u64); as_millis       *)
(* divides by the ticks of a millisecond.  The Unix milliseconds are u64:  *)
(* four 16-bit limbs, least significant first.                             *)
(***************************************************************************)
TICK_HZ == 1000 * 1000

\* variant that takes the ticks for milliseconds
as_millis_Ticks(d) == d

as_millis(d) == (d * 1000) \div TICK_HZ

Limb == 256 * 256

\* a natural below 2^31 as a u64
ToU64(n) == <<n % Limb, (n \div Limb) % Limb, 0, 0>>

\* u64 addition; over is set when the sum does not fit
AddU64(a, b) ==
    LET s1 == a[1] + b[1]
        s2 == a[2] + b[2] + (s1 \div Limb)
        s3 == a[3] + b[3] + (s2 \div Limb)
        s4 == a[4] + b[4] + (s3 \div Limb)
    IN  [val |-> <<s1 % Limb, s2 % Limb, s3 % Limb, s4 % Limb>>,
         over |-> s4 >= Limb]

\* u64 subtraction; over is set when b is greater than a, val is then the
\* difference modulo 2^64
SubU64(a, b) ==
    LET d1 == a[1] - b[1]
        d2 == a[2] - b[2] - (IF d1 < 0 THEN 1 ELSE 0)
        d3 == a[3] - b[3] - (IF d2 < 0 THEN 1 ELSE 0)
        d4 == a[4] - b[4] - (IF d3 < 0 THEN 1 ELSE 0)
    IN  [val |-> <<d1 % Limb, d2 % Limb, d3 % Limb, d4 % Limb>>,
         over |-> d4 < 0]

\* a <= b for two u64
LeqU64(a, b) == ~SubU64(b, a).over

\* the u64 written in decimal, three digits to a group: <<1, 700, 0, 0, 20>>
\* is 1_700_000_000_020
RECURSIVE Dec(_)
Dec(groups) ==
    IF groups = <<>> THEN ToU64(0)
    ELSE LET hi == Dec(SubSeq(groups, 1, Len(groups) - 1))
             m1 == hi[1] * 1000 + Last(groups)
             m2 == hi[2] * 1000 + (m1 \div Limb)
             m3 == hi[3] * 1000 + (m2 \div Limb)
             m4 == hi[4] * 1000 + (m3 \div Limb)
         IN  <<m1 % Limb, m2 % Limb, m3 % Limb, m4 % Limb>>

\* an arithmetic overflow of `+` or `-` on u64: a panic where the build
\* checks overflow, the wrapped value where it does not
Value(v) == [panic |-> FALSE, val |-> v]

Panic == [panic |-> TRUE, val |-> <<>>]

Arith(r) == IF r.over THEN {Panic, Value(r.val)} ELSE {Value(r.val)}

\* sync_time: the reference point from t1, t1.elapsed() and the timestamp
\* of the gateway.  The set holds the outcomes of the build.
sync_time_reference(t1, elapsed, timestamp) ==
    LET delay == elapsed \div 2
        ref_t == t1 + delay
        adjusted_timestamp == Arith(AddU64(timestamp, ToU64(as_millis(delay))))
    IN  {[ref_t |-> ref_t, ref_ts |-> a.val,
          t1 |-> t1, elapsed |-> elapsed, timestamp |-> timestamp] :
             a \in {o \in adjusted_timestamp : ~o.panic}}

\* 'sending: the timestamp of a packet captured at t
set_timestamp(ref, t) ==
    IF t >= ref.ref_t
    THEN Arith(AddU64(ref.ref_ts, ToU64(as_millis(t - ref.ref_t))))
    ELSE Arith(SubU64(ref.ref_ts, ToU64(as_millis(ref.ref_t - t))))

\* t1 of a round trip, in ticks
StartTicks == {0, 100000}

\* t1.elapsed() of a round trip, in ticks
ElapsedTicks == {0, 3, 40000, 41001}

\* the Unix milliseconds the gateway answers
GatewayTimes == {Dec(<<0>>), Dec(<<7>>), Dec(<<1, 700, 0, 0, 0>>)}

\* the capture time of a packet, in ticks
CaptureTicks == {0, 50000, 100000, 119999, 120000, 220000}

\* sync_time returned Ok
SyncTime ==
    /\ \E t1 \in StartTicks, elapsed \in ElapsedTicks, timestamp \in GatewayTimes :
          time_reference' \in sync_time_reference(t1, elapsed, timestamp)
    /\ pkt_timestamp' = NoStamp
    /\ UNCHANGED <<auth, l_pc, backoff_ms, conn, l_tp, l_open, retry, sleeps>>
    /\ UNCHANGED <<gatewayVars, netVars, scanVars, tampers, limits, ledVars, codecVars>>

\* 'sending stamps a packet captured at t
StampPacket ==
    /\ time_reference # NoReference
    /\ \E t \in CaptureTicks :
          \E ts \in set_timestamp(time_reference, t) :
              pkt_timestamp' = [set |-> TRUE, t |-> t, ts |-> ts]
    /\ UNCHANGED <<listenerVars, gatewayVars, netVars, scanVars, tampers, limits, ledVars, codecVars>>

NextStamp == SyncTime \/ StampPacket

SpecStamp == Init /\ [][NextStamp]_vars

(***************************************************************************)
(* Part 4: the framing of send and recv on both endpoints                  *)
(*                                                                         *)
(* A byte string is a sequence of runs, a run being `count` times `byte`,  *)
(* so that the strings of the sizes the buffers decide on stay small.      *)
(***************************************************************************)
Run(byte, count) == [byte |-> byte, count |-> count]

\* the number of bytes of a byte string
RECURSIVE RunLen(_)
RunLen(runs) == IF runs = <<>> THEN 0 ELSE Head(runs).count + RunLen(Tail(runs))

\* the first n bytes of a byte string that holds at least n
RECURSIVE TakeRuns(_, _)
TakeRuns(runs, n) ==
    IF n = 0 THEN <<>>
    ELSE IF Head(runs).count <= n
         THEN <<Head(runs)>> \o TakeRuns(Tail(runs), n - Head(runs).count)
         ELSE <<Run(Head(runs).byte, n)>>

\* a byte string without its first n bytes
RECURSIVE DropRuns(_, _)
DropRuns(runs, n) ==
    IF n = 0 THEN runs
    ELSE IF Head(runs).count <= n
         THEN DropRuns(Tail(runs), n - Head(runs).count)
         ELSE <<Run(Head(runs).byte, Head(runs).count - n)>> \o Tail(runs)

\* byte i (from 0) of a byte string
ByteAt(runs, i) == Head(DropRuns(runs, i)).byte

\* the greatest u16
U16_MAX == Limb - 1

\* u16::to_be_bytes written with write_all
to_be_bytes(n) == <<Run(n \div 256, 1), Run(n % 256, 1)>>

\* u16::from_be_bytes
from_be_bytes(b0, b1) == b0 * 256 + b1

\* let mut noise_buf = [0u8; 1024] of the sender task, the buffer of its recv
LISTENER_RX_BUFFER == 1024
\* let mut rx_buffer = [0u8; 4096] of handle_conn
GATEWAY_RX_BUFFER == 4096

\* send of the listener: Err when the length is no u16, else the length,
\* the payload and the flush
listener_send(tx_buffer) ==
    IF RunLen(tx_buffer) > U16_MAX
    THEN [result |-> "err", stream |-> <<>>]
    ELSE [result |-> "ok", stream |-> to_be_bytes(RunLen(tx_buffer)) \o tx_buffer]

\* send of the gateway: expect("Too large message") panics when the length
\* is no u16
gateway_send(buf) ==
    IF RunLen(buf) > U16_MAX
    THEN [result |-> "panic", stream |-> <<>>]
    ELSE [result |-> "ok", stream |-> to_be_bytes(RunLen(buf)) \o buf]

\* recv of either endpoint on a stream that holds a whole frame: the two
\* length bytes, then rx_buffer[..msg_len], which panics when msg_len is
\* beyond the buffer
recv(stream, rx_buffer_len) ==
    LET msg_len == from_be_bytes(ByteAt(stream, 0), ByteAt(stream, 1))
    IN  IF msg_len > rx_buffer_len
        THEN [result |-> "panic", n |-> 0, buf |-> <<>>]
        ELSE [result |-> "ok", n |-> msg_len,
              buf |-> TakeRuns(DropRuns(stream, 2), msg_len)]

\* the payload sizes of the frames
PayloadSizes ==
    {0, 1, 2, 255, 256, 257, 1023, 1024, 1025, 4095, 4096, 4097, U16_MAX, U16_MAX + 1}

\* the payloads: one byte repeated, or a first byte and another repeated
Payloads ==
    {IF n = 0 THEN <<>> ELSE <<Run(171, n)>> : n \in PayloadSizes}
        \cup {<<Run(0, 1), Run(255, n - 1)>> : n \in PayloadSizes \ {0, 1}}

Directions == {"listener_to_gateway", "gateway_to_listener"}

\* one endpoint sends a payload
FrameSend ==
    /\ \E dir \in Directions, b \in Payloads :
          LET w == IF dir = "listener_to_gateway"
                   THEN listener_send(b) ELSE gateway_send(b)
          IN  frame_io' = [stage |-> IF w.result = "ok" THEN "sent" ELSE "send_" \o w.result,
                           dir |-> dir, payload |-> b, stream |-> w.stream,
                           n |-> 0, buf |-> <<>>]
    /\ UNCHANGED <<report, scan_pc, parse_io, conv_io>>
    /\ UNCHANGED <<scanVars, listenerVars, gatewayVars, netVars, tampers, limits, pkt_timestamp, ledVars>>

\* the other endpoint receives it
FrameRecv ==
    /\ frame_io.stage = "sent"
    /\ LET r == recv(frame_io.stream,
                     IF frame_io.dir = "listener_to_gateway"
                     THEN GATEWAY_RX_BUFFER ELSE LISTENER_RX_BUFFER)
       IN  frame_io' = [frame_io EXCEPT !.stage = IF r.result = "ok" THEN "received"
                                                  ELSE "recv_panic",
                                        !.n = r.n, !.buf = r.buf]
    /\ UNCHANGED <<report, scan_pc, parse_io, conv_io>>
    /\ UNCHANGED <<scanVars, listenerVars, gatewayVars, netVars, tampers, limits, pkt_timestamp, ledVars>>

NextFrame == FrameSend \/ FrameRecv

SpecFrame == Init /\ [][NextFrame]_vars

(***************************************************************************)
(* Part 5: the advertisement reports of the scanner and parse_ruuvi_raw    *)
(*                                                                         *)
(* A byte slice is a sequence of 0..255; At and From index it from 0 as    *)
(* the source does.                                                        *)
(***************************************************************************)
At(data, i) == data[i + 1]

\* data[i..]
From(data, i) == SubSeq(data, i + 1, Len(data))

\* data[i..j]
Range(data, i, j) == SubSeq(data, i + 1, j)

\* const RUUVI_MAN_ID: [u8; 2] = [0x99, 0x04]
RUUVI_MAN_ID == <<153, 4>>

\* variant that reads the two bytes as an unsigned number
i16_from_be_bytes_Unsigned(b0, b1) == from_be_bytes(b0, b1)

\* i16::from_be_bytes
i16_from_be_bytes(b0, b1) ==
    LET u == from_be_bytes(b0, b1) IN IF u >= 128 * 256 THEN u - Limb ELSE u

\* a | b on naturals
RECURSIVE BitOr(_, _)
BitOr(a, b) ==
    IF a = 0 THEN b
    ELSE IF b = 0 THEN a
    ELSE 2 * BitOr(a \div 2, b \div 2) + (IF a % 2 = 1 \/ b % 2 = 1 THEN 1 ELSE 0)

\* a << n and a >> n on naturals that fit
RECURSIVE Shl(_, _)
Shl(a, n) == IF n = 0 THEN a ELSE Shl(2 * a, n - 1)

RECURSIVE Shr(_, _)
Shr(a, n) == IF n = 0 THEN a ELSE Shr(a \div 2, n - 1)

\* variant that drops the bit
Bit0_Zero(a) == 0

\* a & 1
Bit0(a) == a % 2

TooShort == [ok |-> FALSE, err |-> "TooShort", tag |-> 0]

UnknownFormat(tag) == [ok |-> FALSE, err |-> "UnknownFormat", tag |-> tag]

\* the arm of format E1
parse_e1(data) ==
    IF Len(data) < 40 THEN TooShort
    ELSE LET flags == At(data, 28)
         IN  [ok |-> TRUE, kind |-> "E1",
              temp |-> i16_from_be_bytes(At(data, 1), At(data, 2)),
              humidity |-> from_be_bytes(At(data, 3), At(data, 4)),
              pressure |-> from_be_bytes(At(data, 5), At(data, 6)),
              pm1_0 |-> from_be_bytes(At(data, 7), At(data, 8)),
              pm2_5 |-> from_be_bytes(At(data, 9), At(data, 10)),
              pm4_0 |-> from_be_bytes(At(data, 11), At(data, 12)),
              pm10_0 |-> from_be_bytes(At(data, 13), At(data, 14)),
              co2 |-> from_be_bytes(At(data, 15), At(data, 16)),
              voc_index |-> BitOr(Shl(At(data, 17), 1), Bit0(Shr(flags, 6))),
              nox_index |-> BitOr(Shl(At(data, 18), 1), Bit0(Shr(flags, 7))),
              luminosity |-> BitOr(BitOr(Shl(At(data, 19), 16), Shl(At(data, 20), 8)),
                                   At(data, 21)),
              measurement_seq |-> BitOr(BitOr(Shl(At(data, 25), 16), Shl(At(data, 26), 8)),
                                        At(data, 27)),
              flags |-> flags,
              mac |-> Range(data, 34, 40)]

\* the arm of format 5
parse_v2(data) ==
    IF Len(data) < 24 THEN TooShort
    ELSE [ok |-> TRUE, kind |-> "V2",
          temp |-> i16_from_be_bytes(At(data, 1), At(data, 2)),
          humidity |-> from_be_bytes(At(data, 3), At(data, 4)),
          pressure |-> from_be_bytes(At(data, 5), At(data, 6)),
          acc_x |-> i16_from_be_bytes(At(data, 7), At(data, 8)),
          acc_y |-> i16_from_be_bytes(At(data, 9), At(data, 10)),
          acc_z |-> i16_from_be_bytes(At(data, 11), At(data, 12)),
          power_info |-> from_be_bytes(At(data, 13), At(data, 14)),
          movement_counter |-> At(data, 15),
          measurement_seq |-> from_be_bytes(At(data, 16), At(data, 17)),
          mac |-> Range(data, 18, 24)]

\* variant that takes every tag but E1 for format 5
parse_ruuvi_raw_DefaultV2(data_format, data) ==
    IF data_format = 225 THEN parse_e1(data) ELSE parse_v2(data)

parse_ruuvi_raw(data_format, data) ==
    IF data_format = 225 THEN parse_e1(data)
    ELSE IF data_format = 5 THEN parse_v2(data)
    ELSE UnknownFormat(data_format)

\* Handler::extract_ruuvi_format: None, Some((format, index)), or the panic
\* of an index beyond the slice
extract_ruuvi_format(r) ==
    IF r.addr_kind = "RANDOM" /\ Len(r.data) >= 7
    THEN IF Range(r.data, 5, 7) = RUUVI_MAN_ID
         THEN IF 7 < Len(r.data)
              THEN [panic |-> FALSE, some |-> TRUE, format |-> At(r.data, 7), index |-> 7]
              ELSE [panic |-> TRUE, some |-> FALSE, format |-> 0, index |-> 0]
         ELSE IF Range(r.data, 2, 4) = RUUVI_MAN_ID
              THEN [panic |-> FALSE, some |-> TRUE, format |-> At(r.data, 4), index |-> 4]
              ELSE [panic |-> FALSE, some |-> FALSE, format |-> 0, index |-> 0]
    ELSE [panic |-> FALSE, some |-> FALSE, format |-> 0, index |-> 0]

\* reports one scan delivers
MaxAdverts == 3

\* n bytes of measurement data
Filler(n, k) == [i \in 1..n |-> (i * k + 16) % 256]

SensorMacs == {<<200, 1, 2, 3, 4, 5>>, <<201, 1, 2, 3, 4, 5>>}

\* the payload of format 5 (24 bytes) and of format E1 (40 bytes) of a sensor
PayloadV2(mac, seq) == <<5>> \o Filler(15, 7) \o <<seq \div 256, seq % 256>> \o mac

PayloadE1(mac, seq) ==
    <<225>> \o Filler(24, 3) \o <<0, seq \div 256, seq % 256>> \o <<192>>
        \o Filler(5, 11) \o mac

\* the advertising data around a payload: flags and manufacturer data of a
\* tag (company ID at 5..7), manufacturer data of an Air (company ID at 2..4)
TagAdvert(company, payload) == <<2, 1, 6, Len(payload) + 3, 255>> \o company \o payload

AirAdvert(company, payload) == <<Len(payload) + 3, 255>> \o company \o payload

Truncated(data) == SubSeq(data, 1, Len(data) - 1)

AdvData ==
    {TagAdvert(RUUVI_MAN_ID, PayloadV2(mac, seq)) : mac \in SensorMacs, seq \in 1..2}
        \cup {AirAdvert(RUUVI_MAN_ID, PayloadE1(mac, 1)) : mac \in SensorMacs}
        \cup {<<>>, <<2, 1, 6>>,
              TagAdvert(RUUVI_MAN_ID, <<>>),
              TagAdvert(RUUVI_MAN_ID, <<5>>),
              Truncated(TagAdvert(RUUVI_MAN_ID, PayloadV2(<<200, 1, 2, 3, 4, 5>>, 1))),
              Truncated(AirAdvert(RUUVI_MAN_ID, PayloadE1(<<200, 1, 2, 3, 4, 5>>, 1))),
              TagAdvert(RUUVI_MAN_ID, <<6>> \o Filler(23, 5)),
              TagAdvert(<<76, 0>>, PayloadV2(<<200, 1, 2, 3, 4, 5>>, 1))}

AddrKinds == {"RANDOM", "PUBLIC"}

\* One iteration of on_ext_adv_reports for the report r
OnAdvReport(r) ==
    LET x == extract_ruuvi_format(r)
        p == parse_ruuvi_raw(x.format, From(r.data, x.index))
    IN  /\ scan_pc = "scanning"
        /\ report' = [seen |-> report.seen + 1, addr_kind |-> r.addr_kind, data |-> r.data]
        /\ IF x.panic
           THEN scan_pc' = "panicked" /\ UNCHANGED scanVars
           ELSE /\ scan_pc' = scan_pc
                /\ IF x.some /\ p.ok
                   THEN Handle(p.mac, p.measurement_seq)
                   ELSE UNCHANGED scanVars
        /\ UNCHANGED <<listenerVars, gatewayVars, netVars>>
        /\ UNCHANGED <<tampers, limits, pkt_timestamp, ledVars, frame_io, parse_io, conv_io>>

AdvReport ==
    /\ report.seen < MaxAdverts
    /\ \E k \in AddrKinds, d \in AdvData : OnAdvReport([addr_kind |-> k, data |-> d])

NextAdvert == AdvReport \/ Receive

SpecAdvert == Init /\ [][NextAdvert]_vars

\* the arguments of parse_ruuvi_raw: format tags, and slices of the lengths
\* around the two minimum lengths with several contents
FormatTags == {0, 5, 6, 225, 255}

SliceLens == {0, 1, 23, 24, 25, 39, 40, 41}

\* data with the byte at offset i replaced
WithByte(data, i, b) == [data EXCEPT ![i + 1] = b]

\* slices with chosen bytes in the temperature and the sequence of format 5
\* and in the VOC, NOx and flags bytes of format E1
ParseData ==
    {Filler(n, k) : n \in SliceLens, k \in {1, 7}}
        \cup {WithByte(WithByte(WithByte(Filler(24, 1), 1, t), 16, q), 20, m) :
                  t \in {0, 127, 128, 255}, q \in {0, 255}, m \in {0, 9}}
        \cup {WithByte(WithByte(WithByte(Filler(40, 7), 17, v), 18, x), 28, f) :
                  v \in {0, 128, 255}, x \in {0, 64, 255}, f \in {0, 64, 128, 192}}

Parse ==
    /\ \E data_format \in FormatTags, data \in ParseData :
          parse_io' = [done |-> TRUE, data_format |-> data_format, data |-> data,
                       result |-> parse_ruuvi_raw(data_format, data)]
    /\ UNCHANGED <<frame_io, report, scan_pc, conv_io>>
    /\ UNCHANGED <<scanVars, listenerVars, gatewayVars, netVars, tampers, limits, pkt_timestamp, ledVars>>

NextParse == Parse

SpecParse == Init /\ [][NextParse]_vars

(***************************************************************************)
(* Part 6: calculate_abs_humidity and calculate_dew_pont                   *)
(*                                                                         *)
(* An f64 is a finite number, kept as a count of 1/10000 and rounded down  *)
(* after every operation, or one of the special values of IEEE 754: the    *)
(* two infinities and NaN.  The special values follow IEEE 754; the        *)
(* finite values carry the error of four decimals.                         *)
(***************************************************************************)
FRAC == 100 * 100

Fin(v) == [cls |-> "fin", v |-> v]

NaN == [cls |-> "nan", v |-> 0]

PosInf == [cls |-> "+inf", v |-> 0]

NegInf == [cls |-> "-inf", v |-> 0]

\* the sign of a value that is no NaN: -1, 0 or 1
Sign(a) ==
    IF a.cls = "+inf" THEN 1
    ELSE IF a.cls = "-inf" THEN -1
    ELSE IF a.v > 0 THEN 1 ELSE IF a.v < 0 THEN -1 ELSE 0

Inf(sign) == IF sign > 0 THEN PosInf ELSE NegInf

FNeg(a) ==
    IF a.cls = "nan" THEN NaN
    ELSE IF a.cls = "+inf" THEN NegInf
    ELSE IF a.cls = "-inf" THEN PosInf
    ELSE Fin(0 - a.v)

FAdd(a, b) ==
    IF a.cls = "nan" \/ b.cls = "nan" THEN NaN
    ELSE IF a.cls = "fin" /\ b.cls = "fin" THEN Fin(a.v + b.v)
    ELSE IF a.cls = "fin" THEN b
    ELSE IF b.cls = "fin" THEN a
    ELSE IF a.cls = b.cls THEN a ELSE NaN

FSub(a, b) == FAdd(a, FNeg(b))

\* the product of two counts, rounded down
MulFix(a, b) ==
    LET ah == a \div FRAC
        al == a % FRAC
        bh == b \div FRAC
        bl == b % FRAC
    IN  ah * bh * FRAC + ah * bl + al * bh + ((al * bl) \div FRAC)

FMul(a, b) ==
    IF a.cls = "nan" \/ b.cls = "nan" THEN NaN
    ELSE IF a.cls = "fin" /\ b.cls = "fin" THEN Fin(MulFix(a.v, b.v))
    ELSE IF Sign(a) = 0 \/ Sign(b) = 0 THEN NaN
    ELSE Inf(Sign(a) * Sign(b))

\* n more decimal digits of r / b for 0 <= r < b, appended to acc
RECURSIVE FracDigits(_, _, _, _)
FracDigits(r, b, n, acc) ==
    IF n = 0 THEN acc
    ELSE FracDigits((r * 10) % b, b, n - 1, acc * 10 + ((r * 10) \div b))

\* the quotient of two counts, rounded down
DivFix(a, b) ==
    IF b > 0 THEN (a \div b) * FRAC + FracDigits(a % b, b, 4, 0)
    ELSE ((0 - a) \div (0 - b)) * FRAC + FracDigits((0 - a) % (0 - b), 0 - b, 4, 0)

FDiv(a, b) ==
    IF a.cls = "nan" \/ b.cls = "nan" THEN NaN
    ELSE IF a.cls = "fin" /\ b.cls = "fin"
         THEN IF b.v # 0 THEN Fin(DivFix(a.v, b.v))
              ELSE IF a.v = 0 THEN NaN ELSE Inf(Sign(a))
    ELSE IF a.cls = "fin" THEN Fin(0)
    ELSE IF b.cls = "fin" THEN Inf(Sign(a) * (IF Sign(b) < 0 THEN -1 ELSE 1))
    ELSE NaN

\* a <= b: false when either is NaN
FLeq(a, b) ==
    /\ a.cls # "nan" /\ b.cls # "nan"
    /\ \/ a.cls = "-inf"
       \/ b.cls = "+inf"
       \/ a.cls = "fin" /\ b.cls = "fin" /\ a.v <= b.v

\* the terms term, term * r / n, ... of the exponential series up to n = 12
RECURSIVE ExpSeries(_, _, _)
ExpSeries(term, r, n) ==
    IF n > 12 \/ term = 0 THEN 0
    ELSE term + ExpSeries((term * r) \div (n * FRAC), r, n + 1)

\* e^x of a count: 2^k * e^r with x = k * ln 2 + r
ExpFix(x) ==
    LET k == x \div 6931
        e == ExpSeries(FRAC, x % 6931, 1)
    IN  IF k >= 0 THEN Shl(e, k) ELSE Shr(e, 0 - k)

\* f64::exp
FExp(a) ==
    IF a.cls = "nan" THEN NaN
    ELSE IF a.cls = "+inf" THEN PosInf
    ELSE IF a.cls = "-inf" THEN Fin(0)
    ELSE Fin(ExpFix(a.v))

\* ln x of a count 0 < x <= 1: x = y / 2^k with 1/2 < y <= 1, and
\* ln y = 2 * (z + z^3 / 3 + z^5 / 5 + z^7 / 7) with z = (y - 1) / (y + 1)
RECURSIVE LnFix(_)
LnFix(x) ==
    IF 2 * x <= FRAC THEN LnFix(2 * x) - 6931
    ELSE LET z  == DivFix(x - FRAC, x + FRAC)
             z2 == MulFix(z, z)
             z3 == MulFix(z, z2)
             z5 == MulFix(z3, z2)
             z7 == MulFix(z5, z2)
         IN  2 * (z + (z3 \div 3) + (z5 \div 5) + (z7 \div 7))

\* f64::ln of a value that is at most 1
FLn(a) ==
    IF a.cls = "nan" \/ a.cls = "-inf" THEN NaN
    ELSE IF a.cls = "+inf" THEN PosInf
    ELSE IF a.v < 0 THEN NaN
    ELSE IF a.v = 0 THEN NegInf
    ELSE Fin(LnFix(a.v))

calculate_abs_humidity(temp, rel_humidity) ==
    LET ps_hpa == FMul(Fin(61121),
                       FExp(FMul(FSub(Fin(186780), FDiv(temp, Fin(2345000))),
                                 FDiv(temp, FAdd(Fin(2571400), temp)))))
        ps == FMul(ps_hpa, Fin(100 * FRAC))
        pa == FMul(ps, FDiv(rel_humidity, Fin(100 * FRAC)))
    IN  FDiv(FMul(Fin(21670), pa), FAdd(temp, Fin(2731500)))

calculate_dew_pont(temp, rel_humidity) ==
    LET a == Fin(176250)
        b == Fin(2430400)
        gamma == FAdd(FLn(FDiv(rel_humidity, Fin(100 * FRAC))),
                      FDiv(FMul(a, temp), FAdd(b, temp)))
    IN  FDiv(FMul(b, gamma), FSub(a, gamma))

\* temperatures from -40 to +85 degrees and relative humidities from 0 to
\* 100 %, as counts of 1/10000; the least humidity above 0 is one whose
\* hundredth is still a count
TempSamples ==
    {-400000, -300000, -200000, -100000, -50, 0, 50, 100000, 222000, 300000,
     400000, 500000, 600000, 700000, 850000}

HumiditySamples ==
    {0, 10000, 100000, 250000, 500000, 524125, 750000, 999900, 100 * FRAC}

\* the two formulas on one measurement
Climate ==
    /\ \E temp \in TempSamples, rel_humidity \in HumiditySamples :
          conv_io' = [fn |-> "climate", temp |-> temp, rel_humidity |-> rel_humidity,
                      abs_humidity |-> calculate_abs_humidity(Fin(temp), Fin(rel_humidity)),
                      dew_point_temp |-> calculate_dew_pont(Fin(temp), Fin(rel_humidity))]
    /\ UNCHANGED <<frame_io, report, scan_pc, parse_io>>
    /\ UNCHANGED <<scanVars, listenerVars, gatewayVars, netVars, tampers, limits, pkt_timestamp, ledVars>>

NextClimate == Climate

SpecClimate == Init /\ [][NextClimate]_vars

(***************************************************************************)
(* Part 7: the unit conversion of the gateway (RuuviV2::from_raw and       *)
(* RuuviE1::from_raw)                                                      *)
(*                                                                         *)
(* A quantity with a fraction is kept as the count of its resolution: the  *)
(* temperature in 0.005 degrees, the relative humidity in 0.0025 %, the    *)
(* particulate matter in 0.1 ug/m3, the luminosity in 0.01 lux, and the    *)
(* battery voltage in millivolts.  The two derived quantities are f64 as   *)
(* in Part 6.                                                              *)
(***************************************************************************)
\* a temperature in 0.005 degrees and a humidity in 0.0025 % as f64
Degrees(temp) == Fin(temp * 50)

Percent(rel_humidity) == Fin(rel_humidity * 25)

\* variant that does not cap
u16_min_Left(a, b) == a

\* u16::min
u16_min(a, b) == IF a < b THEN a ELSE b

\* f32::min of a raw count and a cap, both as counts of the resolution
f32_min(a, b) == IF a < b THEN a ELSE b

\* a & b on naturals
RECURSIVE BitAnd(_, _)
BitAnd(a, b) ==
    IF a = 0 \/ b = 0 THEN 0
    ELSE 2 * BitAnd(a \div 2, b \div 2) + (IF a % 2 = 1 /\ b % 2 = 1 THEN 1 ELSE 0)

RuuviV2_from_raw(raw) ==
    [kind |-> "V2",
     mac |-> raw.mac,
     temp |-> raw.temp,
     rel_humidity |-> f32_min(raw.humidity, 100 * 400),
     abs_humidity |-> calculate_abs_humidity(
                          Degrees(raw.temp), Percent(f32_min(raw.humidity, 100 * 400))),
     dew_point_temp |-> calculate_dew_pont(
                            Degrees(raw.temp), Percent(f32_min(raw.humidity, 100 * 400))),
     abs_pressure |-> raw.pressure + 50000,
     acc_x |-> raw.acc_x, acc_y |-> raw.acc_y, acc_z |-> raw.acc_z,
     battery_voltage |-> 1600 + Shr(raw.power_info, 5),
     tx_power |-> BitAnd(raw.power_info, 31) * 2 - 40,
     movement_counter |-> raw.movement_counter,
     measurement_seq |-> raw.measurement_seq]

RuuviE1_from_raw(raw) ==
    [kind |-> "E1",
     mac |-> raw.mac,
     temp |-> raw.temp,
     rel_humidity |-> f32_min(raw.humidity, 100 * 400),
     abs_humidity |-> calculate_abs_humidity(
                          Degrees(raw.temp), Percent(f32_min(raw.humidity, 100 * 400))),
     dew_point_temp |-> calculate_dew_pont(
                            Degrees(raw.temp), Percent(f32_min(raw.humidity, 100 * 400))),
     abs_pressure |-> raw.pressure + 50000,
     pm1_0 |-> f32_min(raw.pm1_0, 1000 * 10),
     pm2_5 |-> f32_min(raw.pm2_5, 1000 * 10),
     pm4_0 |-> f32_min(raw.pm4_0, 1000 * 10),
     pm10_0 |-> f32_min(raw.pm10_0, 1000 * 10),
     co2 |-> u16_min(raw.co2, 40000),
     voc_index |-> u16_min(raw.voc_index, 500),
     nox_index |-> u16_min(raw.nox_index, 500),
     luminosity |-> f32_min(raw.luminosity, 144284 * 100),
     measurement_seq |-> raw.measurement_seq,
     flags |-> raw.flags]

\* raw records as postcard hands them to from_raw: every field is any value
\* of its type, the temperature one of the range of the sensor
U16Samples == {0, 39999, 40000, 40001, U16_MAX}

RawsV2 ==
    {[kind |-> "V2", mac |-> <<200, 1, 2, 3, 4, 5>>, temp |-> t, humidity |-> h,
      pressure |-> p, acc_x |-> 0, acc_y |-> -1, acc_z |-> 1000,
      power_info |-> w, movement_counter |-> 7, measurement_seq |-> 1] :
         t \in {-8000, 17000}, h \in U16Samples, p \in {0, U16_MAX},
         w \in {0, 31, 32, 2047 * 32, 44852, U16_MAX}}

RawsE1 ==
    {[kind |-> "E1", mac |-> <<201, 1, 2, 3, 4, 5>>, temp |-> 4000, humidity |-> h,
      pressure |-> h, pm1_0 |-> c, pm2_5 |-> v, pm4_0 |-> x, pm10_0 |-> h,
      co2 |-> c, voc_index |-> v, nox_index |-> x,
      luminosity |-> 361 * h, measurement_seq |-> 1, flags |-> 192] :
         h \in {0, U16_MAX}, c \in U16Samples \ {39999}, v \in {0, 500, 511, U16_MAX},
         x \in {129, 500, 501}}

\* Ruuvi::from_raw of a decoded record
Convert ==
    /\ \E raw \in RawsV2 \cup RawsE1 :
          conv_io' = [fn |-> "from_raw", raw |-> raw,
                      out |-> IF raw.kind = "V2" THEN RuuviV2_from_raw(raw)
                              ELSE RuuviE1_from_raw(raw)]
    /\ UNCHANGED <<frame_io, report, scan_pc, parse_io>>
    /\ UNCHANGED <<scanVars, listenerVars, gatewayVars, netVars, tampers, limits, pkt_timestamp, ledVars>>

NextConvert == Convert

SpecConvert == Init /\ [][NextConvert]_vars

(***************************************************************************)
(* Part 8: the LED task (ruuvi-listener/src/led.rs)                        *)
(*                                                                         *)
(* The tasks of the listener run on one executor: a task runs from one     *)
(* await to the next without interleaving.  The awaits of task() are the   *)
(* blocking receive, the two led.write calls and the receive with its      *)
(* timeout of 80 ms.                                                       *)
(***************************************************************************)
\* reports the scanner handles in the specification of the LED
MaxLedReports == 3

LedEvents == {"BleOk", "BleDuplicate", "TcpOk"}

\* the match of task(): the colour of an event, unreachable!() for None
Colour(e) ==
    CASE e = "BleOk" -> "GREEN"
      [] e = "TcpOk" -> "BLUE"
      [] e = "BleDuplicate" -> "RED"
      [] OTHER -> "unreachable"

\* variant that takes the value off the channel and leaves event as it was
Received_Dropped(ev, ch) ==
    [event |-> ev, rest |-> IF ev = None THEN Tail(ch) ELSE ch]

\* if event.is_none() { event = Some(receiver.receive().await) }
Received(ev, ch) ==
    IF ev = None THEN [event |-> Head(ch), rest |-> Tail(ch)]
    ELSE [event |-> ev, rest |-> ch]

\* variant that keeps the event it held before the drain
Drain_KeepHeld(ev, ch) == ev

\* while let Ok(v) = receiver.try_receive() { event = Some(v) }
RECURSIVE Drain(_, _)
Drain(ev, ch) == IF ch = <<>> THEN ev ELSE Drain(Head(ch), Tail(ch))

\* from the top of the loop to the await of led.write: take an event if
\* none is held, drain the channel, match the colour, start the write
Paint(ev, ch) ==
    LET got    == Received(ev, ch)
        latest == Drain(got.event, got.rest)
    IN  /\ event' = latest
        /\ led_channel' = <<>>
        /\ IF Colour(latest) = "unreachable"
           THEN led_pc' = "unreachable" /\ led_data' = led_data
           ELSE led_pc' = "write" /\ led_data' = Colour(latest)
        /\ led' = led

\* receiver.receive() at the top of the loop returns
LedReceive ==
    /\ led_pc = "receive"
    /\ event = None => led_channel # <<>>
    /\ Paint(event, led_channel)
    /\ UNCHANGED <<sequence_numbers, channel, arrivals, forwarded, received>>
    /\ UNCHANGED <<listenerVars, gatewayVars, netVars, tampers, limits, pkt_timestamp, codecVars>>

\* led.write(brightness_adjusted) is done: the LED shows the colour, and
\* the task waits for an event or for the 80 ms
LedWrite ==
    /\ led_pc = "write"
    /\ led' = led_data
    /\ led_pc' = "window"
    /\ UNCHANGED <<event, led_data, scanVars>>
    /\ UNCHANGED <<listenerVars, gatewayVars, netVars, tampers, limits, pkt_timestamp, codecVars>>

\* an event arrives within the 80 ms: event = Some(e), and the loop goes on
\* from its top
LedSuperseded ==
    /\ led_pc = "window"
    /\ led_channel # <<>>
    /\ Paint(Head(led_channel), Tail(led_channel))
    /\ UNCHANGED <<sequence_numbers, channel, arrivals, forwarded, received>>
    /\ UNCHANGED <<listenerVars, gatewayVars, netVars, tampers, limits, pkt_timestamp, codecVars>>

\* the 80 ms pass without an event: led.write([BLACK]) begins
LedTimeout ==
    /\ led_pc = "window"
    /\ led_channel = <<>>
    /\ led_pc' = "clear"
    /\ led_data' = "BLACK"
    /\ UNCHANGED <<event, led, scanVars>>
    /\ UNCHANGED <<listenerVars, gatewayVars, netVars, tampers, limits, pkt_timestamp, codecVars>>

\* variant that goes back to the top of the loop with the LED as it was
LedClear_Lit ==
    /\ led_pc = "clear"
    /\ event' = None
    /\ led_pc' = "receive"
    /\ UNCHANGED <<led, led_data, scanVars>>
    /\ UNCHANGED <<listenerVars, gatewayVars, netVars, tampers, limits, pkt_timestamp, codecVars>>

\* led.write([BLACK]) is done: event = None, back to the top of the loop
LedClear ==
    /\ led_pc = "clear"
    /\ led' = led_data
    /\ event' = None
    /\ led_pc' = "receive"
    /\ UNCHANGED <<led_data, scanVars>>
    /\ UNCHANGED <<listenerVars, gatewayVars, netVars, tampers, limits, pkt_timestamp, codecVars>>

LedTask == LedReceive \/ LedWrite \/ LedSuperseded \/ LedTimeout \/ LedClear

\* the sensor advertises its measurement again, or its next one
LedReport ==
    /\ Len(arrivals) < MaxLedReports
    /\ \E seq \in {Len(forwarded), Len(forwarded) + 1} \ {0} : OnReport("M", seq)

\* an iteration of 'sending that sends its record: the sender takes the
\* oldest record and, the send done, notifies the LED task
LedSendOk ==
    /\ received < MaxReceives
    /\ channel # <<>>
    /\ channel' = Tail(channel)
    /\ received' = received + 1
    /\ led_channel' = try_send(led_channel, LED_CAP, "TcpOk")
    /\ UNCHANGED <<sequence_numbers, arrivals, forwarded>>
    /\ UNCHANGED <<listenerVars, gatewayVars, netVars, tampers, limits, pkt_timestamp, codecVars, ledVars>>

NextLed == LedReport \/ LedSendOk \/ LedTask

SpecLed == Init /\ [][NextLed]_vars

\* the executor polls a task that is ready: the LED task is not starved
SpecLedLive == SpecLed /\ WF_vars(LedTask)

(***************************************************************************)
(* Part 9: the timestamp of a stored row                                   *)
(*                                                                         *)
(* from_raw turns Option<u64> milliseconds into DateTime<Utc>.  A u64 is   *)
(* four 16-bit limbs as in Part 3; an i64 and a DateTime are a sign and a  *)
(* magnitude in milliseconds.                                              *)
(***************************************************************************)
\* raw.timestamp: None, or Some(v)
NoTimestamp == [some |-> FALSE]

SomeTimestamp(v) == [some |-> TRUE, v |-> v]

\* raw.timestamp.unwrap_or(0)
unwrap_or_0(ts) == IF ts.some THEN ts.v ELSE ToU64(0)

\* `as i64`: the two's complement reading of the 64 bits
as_i64(u) ==
    IF u[4] < Limb \div 2 THEN [neg |-> FALSE, mag |-> u]
    ELSE [neg |-> TRUE, mag |-> SubU64(ToU64(0), u).val]

\* chrono: DateTime::<Utc>::MAX_UTC and MIN_UTC in milliseconds,
\* +262142-12-31T23:59:59.999 and -262143-01-01T00:00:00 (its magnitude)
MAX_UTC_MILLIS == Dec(<<8, 210, 266, 876, 799, 999>>)

MIN_UTC_MILLIS == Dec(<<8, 334, 601, 315, 200, 0>>)

\* DateTime::from_timestamp_millis: None for a date out of range
from_timestamp_millis(millis) ==
    IF LeqU64(millis.mag, IF millis.neg THEN MIN_UTC_MILLIS ELSE MAX_UTC_MILLIS)
    THEN [some |-> TRUE, dt |-> millis]
    ELSE [some |-> FALSE]

\* variant that takes the reception time for a record without timestamp
timestamp_from_raw_NoneIsNow(ts, fallback_dt) ==
    LET parsed == from_timestamp_millis(as_i64(unwrap_or_0(ts)))
    IN  IF parsed.some /\ ts.some THEN [dt |-> parsed.dt, fallback |-> FALSE]
        ELSE [dt |-> [neg |-> FALSE, mag |-> fallback_dt], fallback |-> TRUE]

\* from_raw: the timestamp of the row, and whether unwrap_or_else took
\* fallback_dt
timestamp_from_raw(ts, fallback_dt) ==
    LET parsed == from_timestamp_millis(as_i64(unwrap_or_0(ts)))
    IN  IF parsed.some THEN [dt |-> parsed.dt, fallback |-> FALSE]
        ELSE [dt |-> [neg |-> FALSE, mag |-> fallback_dt], fallback |-> TRUE]

\* the timestamps of the records received: none, the epoch, a gateway
\* clock at the epoch, the present day, the ends of the range of DateTime,
\* the ends of the range of i64, a wrapped subtraction, a large negative
TimestampSamples ==
    {NoTimestamp}
    \cup {SomeTimestamp(v) : v \in
            {ToU64(0), ToU64(27), Dec(<<1, 700, 0, 0, 0>>),
             MAX_UTC_MILLIS, Dec(<<8, 210, 266, 876, 800, 0>>),
             Dec(<<9, 0, 0, 0, 0, 0>>),
             <<Limb - 1, Limb - 1, Limb - 1, Limb \div 2 - 1>>,
             <<0, 0, 0, Limb \div 2>>,
             <<Limb - 93, Limb - 1, Limb - 1, Limb - 1>>,
             SubU64(ToU64(0), Dec(<<9, 0, 0, 0, 0, 0>>)).val}}

\* Utc::now() when the frame was received
NowSamples == {Dec(<<1, 700, 0, 0, 5>>), Dec(<<1, 700, 0, 60, 0>>), Dec(<<1, 800, 0, 0, 0>>)}

RawKinds == {"V2", "E1"}

\* the serving loop for a frame that deserialized: fallback_dt, from_raw,
\* and the insert, whose error is logged
Store ==
    /\ \E kind \in RawKinds, ts \in TimestampSamples, now \in NowSamples, ok \in BOOLEAN :
          conv_io' = [fn |-> "store", kind |-> kind, timestamp |-> ts,
                      fallback_dt |-> now,
                      row |-> timestamp_from_raw(ts, now), inserted |-> ok]
    /\ UNCHANGED <<frame_io, report, scan_pc, parse_io>>
    /\ UNCHANGED <<scanVars, listenerVars, gatewayVars, netVars, tampers, limits, pkt_timestamp, ledVars>>

NextStore == Store

SpecStore == Init /\ [][NextStore]_vars

(***************************************************************************)
(* Properties of the scanner                                               *)
(***************************************************************************)
ExampleStream ==
    <<Record("M", 1), Record("M", 1), Record("M", 2), Record("N", 1), Record("M", 2)>>

ExampleForwarded == <<Record("M", 1), Record("M", 2), Record("N", 1)>>

\* C1: a report whose (MAC, seq) equals the pair stored for that MAC in the
\* deduplication table when it arrives is not put on the channel, and the
\* stream (M,1),(M,1),(M,2),(N,1),(M,2) forwards (M,1),(M,2),(N,1) in order.
C1_StoredPairNeverEnqueued ==
    /\ [][(/\ arrivals' # arrivals
           /\ Last(arrivals').mac \in DOMAIN sequence_numbers
           /\ sequence_numbers[Last(arrivals').mac] = Last(arrivals').seq)
          => (forwarded' = forwarded /\ channel' \in {channel, <<>>})]_vars
    /\ [](arrivals = ExampleStream => forwarded = ExampleForwarded)

C1_Witness == arrivals = ExampleStream /\ Len(forwarded) = 3

\* C2 as stated: a pair that was forwarded once is never forwarded again,
\* whatever arrives in between.
C2_NeverForwardedTwice ==
    \A i, j \in 1..Len(forwarded) : i # j => forwarded[i] # forwarded[j]

\* the sequence number of the latest report of mac in log, None without one
PrevSeqOf(log, mac) ==
    LET idx == {i \in 1..Len(log) : log[i].mac = mac}
    IN  IF idx = {} THEN None
        ELSE log[CHOOSE i \in idx : \A j \in idx : j <= i].seq

\* C2 amended: a report is not forwarded when the latest earlier report of
\* the same MAC carried the same sequence number and the MAC has an entry in
\* the table.
C2_RepeatOfLatestNotForwarded ==
    [][(/\ arrivals' # arrivals
        /\ Last(arrivals').mac \in DOMAIN sequence_numbers
        /\ PrevSeqOf(arrivals, Last(arrivals').mac) = Last(arrivals').seq)
       => forwarded' = forwarded]_vars

C2_Witness ==
    /\ Len(arrivals) >= 3
    /\ arrivals[3] = arrivals[2]
    /\ arrivals[2] # arrivals[1]
    /\ arrivals[2].mac = arrivals[1].mac
    /\ Len(forwarded) = 2

\* C3: a handler step that clears the channel leaves exactly the record
\* whose arrival triggered the clear on it.
C3_ClearOnlyWhenEnqueueing ==
    [][(arrivals' # arrivals /\ Len(channel') < Len(channel))
       => channel' = <<Last(arrivals')>>]_vars

\* no record occurs twice in log
Distinct(log) == \A i, j \in 1..Len(log) : i # j => log[i] # log[j]

\* C4: the channel never holds more than 16 records, and after a stream of
\* k distinct new records, none of them consumed, it holds the last
\* ((k-1) mod 16)+1 of them in arrival order.
C4_QueueAfterKNewRecords ==
    /\ Len(channel) <= CHANNEL_CAP
    /\ (received = 0 /\ Distinct(arrivals) /\ Len(arrivals) >= 1)
          => LET k == Len(arrivals)
                 n == ((k - 1) % CHANNEL_CAP) + 1
             IN  channel = SubSeq(arrivals, k - n + 1, k)

C4_Witness ==
    /\ received = 0
    /\ Distinct(arrivals)
    /\ Len(arrivals) = 17
    /\ channel = <<Record("M", 17)>>

(***************************************************************************)
(* Properties of the session                                               *)
(***************************************************************************)
\* entry i of wire[c] was written by the listener after its handshake
\* message 3, that is, in the transport phase
ListenerTransportPhase(c, i) ==
    /\ wire[c][i].from = "listener"
    /\ \E j \in 1..(i - 1) :
          /\ wire[c][j].from = "listener"
          /\ wire[c][j].frame.kind = "handshake"
          /\ wire[c][j].frame.msg = 3

C6_PskMismatchGetsNothing ==
    auth # PSK_KEY =>
        /\ l_pc # "sending"
        /\ \A c \in Conns :
              /\ rows[c] = <<>>
              /\ \A i \in 1..Len(wire[c]) : wire[c][i].frame.kind # "transport"

C6_Witness ==
    /\ auth # PSK_KEY
    /\ conn >= 1
    /\ l_pc = "sync_recv"
    /\ Len(wire[conn]) = 4
    /\ rows[conn] = <<>>
    /\ g_pc[conn] = "closed"
    /\ g_fail[conn] = "handshake"

\* C7: on every connection the frames are written in the order handshake
\* message 1 (listener), 2 (gateway), 3 (listener), the time request
\* (listener), the 8-byte time reply (gateway), and then only data frames
\* of the listener.
C7_FrameOrder ==
    \A c \in Conns : \A i \in 1..Len(wire[c]) :
        LET from == wire[c][i].from
            f    == wire[c][i].frame
        IN  /\ i = 1 => from = "listener" /\ f.kind = "handshake" /\ f.msg = 1
            /\ i = 2 => from = "gateway" /\ f.kind = "handshake" /\ f.msg = 2
            /\ i = 3 => from = "listener" /\ f.kind = "handshake" /\ f.msg = 3
            /\ i = 4 => from = "listener" /\ f.kind # "handshake"
                                          /\ f.body.type = "empty"
            /\ i = 5 => from = "gateway" /\ f.kind = "transport"
                                         /\ f.body.type = "u64_be_8_bytes"
            /\ i > 5 => from = "listener" /\ f.body.type = "record"

C7_Witness ==
    \E c \in Conns : Len(wire[c]) >= 6 /\ g_pc[c] = "serving" /\ rows[c] # <<>>

\* C8: when the handshake of the latest connection failed on either side,
\* the listener has closed the connection and slept its backoff by the time
\* it is about to connect again.
C8_HandshakeFailureSleeps ==
    (l_pc = "connect" /\ conn >= 1
        /\ (retry.fail = "handshake" \/ g_fail[conn] = "handshake"))
      => (~l_open[conn] /\ retry.slept)

\* C9: when the listener is about to connect after a failure in any stage,
\* it has slept the backoff and increased it since that failure.
C9_EveryFailureSleepsAndIncreases ==
    (l_pc = "connect" /\ retry.fail # "none")
      => (retry.slept /\ backoff_ms = Min(retry.from * 2, 30000))

RECURSIVE Pow2(_)
Pow2(n) == IF n = 0 THEN 1 ELSE 2 * Pow2(n - 1)

\* C10: the i-th sleep of a run of failures that starts at the initial
\* backoff lasts min(500 * 2^(i-1), 30000) ms, and the backoff stays within
\* [500, 30000].
C10_BackoffSchedule ==
    /\ 500 <= backoff_ms /\ backoff_ms <= 30000
    /\ \A i \in 1..Len(sleeps) : sleeps[i] = Min(500 * Pow2(i - 1), 30000)

C10_Witness ==
    /\ conn = 0
    /\ Len(sleeps) = 7
    /\ sleeps[6] = 16000
    /\ sleeps[7] = 30000
    /\ backoff_ms = 30000

(***************************************************************************)
(* Properties of the backoff, the time sync and the serving loop           *)
(***************************************************************************)
\* the listener has written a data frame on its connection
SentOnConn == conn >= 1 /\ Len(wire[conn]) >= 6

\* C11: a successful send of a data frame leaves the backoff at 500 ms, and
\* a failure that follows a successful send of the session finds the
\* backoff at 500 ms and sleeps it.
C11_SendResetsBackoff ==
    /\ [][(/\ l_pc = "sending"
           /\ Len(wire'[conn]) > Len(wire[conn])
           /\ Last(wire'[conn]).from = "listener") => backoff_ms' = 500]_vars
    /\ []((l_pc = "sleep_reconnect" /\ SentOnConn) => backoff_ms = 500)
    /\ []((retry.fail = "send" /\ SentOnConn) => retry.from = 500)

C11_Witness ==
    /\ SentOnConn
    /\ retry.fail = "send"
    /\ retry.slept
    /\ sleeps = <<500>>
    /\ backoff_ms = 1000

\* C12: when the sender is in the sending loop, after the handshake and the
\* time sync of the session, the backoff is 500 ms, whatever failed before.
C12_StreamingResetsBackoff == l_pc = "sending" => backoff_ms = 500

\* the entries of wire[c] that are time requests of the listener
RequestsOn(c) ==
    {i \in 1..Len(wire[c]) : /\ wire[c][i].from = "listener"
                             /\ wire[c][i].frame.kind # "handshake"
                             /\ wire[c][i].frame.body.type = "empty"}

\* the entries of wire[c] that are time replies of the gateway
RepliesOn(c) ==
    {i \in 1..Len(wire[c]) : /\ wire[c][i].from = "gateway"
                             /\ wire[c][i].frame.body.type = "u64_be_8_bytes"}

\* the entries of wire[c] that are data frames
DataOn(c) == {i \in 1..Len(wire[c]) : wire[c][i].frame.body.type = "record"}

\* C13: a connection carries at most one time request and at most one time
\* reply, the request after handshake message 3, and exactly one of each
\* before its first data frame.
C13_OneTimeSyncRoundTrip ==
    \A c \in Conns :
        /\ Cardinality(RequestsOn(c)) <= 1
        /\ Cardinality(RepliesOn(c)) <= 1
        /\ \A i \in RequestsOn(c) :
              \E h \in 1..(i - 1) : wire[c][h].frame.kind = "handshake"
                                    /\ wire[c][h].frame.msg = 3
        /\ \A i \in DataOn(c) :
              /\ \E j \in RequestsOn(c) : j < i
              /\ \E k \in RepliesOn(c) : k < i

C13_Witness ==
    \E c \in Conns :
        /\ Cardinality(RequestsOn(c)) = 1
        /\ Cardinality(RepliesOn(c)) = 1
        /\ Cardinality(DataOn(c)) = 2

\* C14: every data frame of a connection carries a timestamp computed from
\* the reference point that the time sync of that connection stored.
C14_StampedFromOwnSession ==
    \A c \in Conns : \A i \in DataOn(c) :
        wire[c][i].frame.body.val.anchor = [session |-> c]

C14_Witness ==
    /\ conn = 2
    /\ DataOn(2) # {}
    /\ time_reference = [session |-> 2]
    /\ received = 2

\* C15: the reference point is (t1 + (t2 - t1)/2, T_srv + ms((t2 - t1)/2)),
\* a packet captured at t >= ref_t is stamped ref_ts + ms(t - ref_t), and
\* for t1 = 100 ms, t2 = 140 ms, T_srv = 1_700_000_000_000 the reference
\* point is (120 ms, 1_700_000_000_020) and a packet captured at 220 ms is
\* stamped 1_700_000_000_120.
C15_AnchorAndStamp ==
    time_reference # NoReference =>
        LET r == time_reference
            half == r.elapsed \div 2
            half_ms == half \div 1000
        IN  /\ r.ref_t = r.t1 + half
            /\ r.timestamp = Dec(<<7>>) => r.ref_ts = ToU64(7 + half_ms)
            /\ r.timestamp = Dec(<<1, 700, 0, 0, 0>>) =>
                   r.ref_ts = Dec(<<1, 700, 0, 0, half_ms>>)
            /\ (r.t1 = 100000 /\ r.elapsed = 40000
                  /\ r.timestamp = Dec(<<1, 700, 0, 0, 0>>)) =>
                   /\ r.ref_t = 120000
                   /\ r.ref_ts = Dec(<<1, 700, 0, 0, 20>>)
                   /\ (pkt_timestamp.set /\ pkt_timestamp.t = 220000) =>
                          pkt_timestamp.ts = Value(Dec(<<1, 700, 0, 0, 120>>))
            /\ (pkt_timestamp.set /\ pkt_timestamp.t >= r.ref_t) =>
                   /\ ~pkt_timestamp.ts.panic
                   /\ r.timestamp = Dec(<<7>>) =>
                          pkt_timestamp.ts.val =
                              ToU64(7 + half_ms + ((pkt_timestamp.t - r.ref_t) \div 1000))

C15_Witness ==
    /\ time_reference # NoReference
    /\ time_reference.t1 = 100000
    /\ time_reference.elapsed = 40000
    /\ time_reference.timestamp = Dec(<<1, 700, 0, 0, 0>>)
    /\ pkt_timestamp.set
    /\ pkt_timestamp.t = 220000

\* C16: a packet captured before the reference point is stamped
\* max(0, ref_ts - ms(ref_t - t)): the subtraction saturates at zero and
\* neither wraps nor panics.
C16_SaturatingBeforeAnchor ==
    (pkt_timestamp.set /\ pkt_timestamp.t < time_reference.ref_t) =>
        LET d == SubU64(time_reference.ref_ts,
                        ToU64((time_reference.ref_t - pkt_timestamp.t) \div 1000))
        IN  /\ ~pkt_timestamp.ts.panic
            /\ pkt_timestamp.ts.val = IF d.over THEN ToU64(0) ELSE d.val

\* C17: a frame of the serving loop that fails deserialization, or whose
\* insert fails, leaves the handler in its serving loop, at its next recv.
C17_ParseAndInsertErrorsContinue ==
    [][\A c \in Conns :
          (/\ g_log'[c] # g_log[c]
           /\ g_log'[c] # <<>>
           /\ Last(g_log'[c]).out \in {"parse_error", "insert_error"})
          => g_pc'[c] = "serving"]_vars

C17_Witness ==
    \E c \in Conns :
        /\ Len(g_log[c]) = 2
        /\ g_log[c][1].out \in {"parse_error", "insert_error"}
        /\ g_log[c][2].out = "inserted"
        /\ Len(rows[c]) = 1

\* C18: a frame that fails decryption is the last the handler takes: the
\* handler has returned; and a handler that has returned (decryption
\* failure or read error) inserts no row any more.
C18_DecryptOrReadErrorEndsHandler ==
    /\ [](\A c \in Conns : \A i \in 1..Len(g_log[c]) :
             g_log[c][i].out = "decrypt_error" =>
                 (i = Len(g_log[c]) /\ g_pc[c] = "closed"))
    /\ [][\A c \in Conns :
             g_pc[c] = "closed" => (g_pc'[c] = "closed" /\ rows'[c] = rows[c])]_vars

C18_Witness ==
    \E c \in Conns :
        /\ tampers = 1
        /\ g_pc[c] = "closed"
        /\ Len(g_log[c]) = 2
        /\ g_log[c][1].out = "inserted"
        /\ g_log[c][2].out = "decrypt_error"
        /\ Len(rows[c]) = 1

\* C19: an I/O error on the gateway ends the task of the connection it
\* hits and nothing else: the other handlers and the accept loop go on.
C19_IoErrorEndsOnlyItsTask ==
    /\ [][accepting => accepting']_vars
    /\ [][\A c \in Conns :
             (g_pc[c] \notin {"idle", "closed"} /\ g_pc'[c] = "closed")
             => \A d \in Conns \ {c} : g_pc'[d] = g_pc[d]]_vars

IsInserted(e) == e.out = "inserted"

\* what the handler of c has not dropped from its history
Kept(c) == ~Over(c, conn, g_pc)

\* C20: the handler finishes a frame, its insert included, before it reads
\* the next one, and the rows of a connection are in the order in which
\* their frames were received.
C20_FramesProcessedInOrder ==
    \A c \in Conns :
        Kept(c) =>
            /\ \A i \in 1..(Len(g_log[c]) - 1) : g_log[c][i].out # "inserting"
            /\ LET ins == SelectSeq(g_log[c], IsInserted)
               IN  rows[c] = [i \in 1..Len(ins) |-> ins[i].rec]
            /\ \A i, j \in 1..Len(rows[c]) :
                  i < j => rows[c][i].rec.seq < rows[c][j].rec.seq

C20_Witness ==
    \E c \in Conns :
        /\ Len(rows[c]) = 2
        /\ Len(g_log[c]) = 2
        /\ g_pc[c] = "serving"

(***************************************************************************)
(* C21: every payload of at most 65535 bytes that one endpoint sends is    *)
(* received by the other endpoint unchanged, with its length, without an   *)
(* error and without a panic, in both directions.                          *)
(***************************************************************************)
C21_FramingRoundTrip ==
    (frame_io.stage # "idle" /\ RunLen(frame_io.payload) <= U16_MAX) =>
        /\ frame_io.stage \in {"sent", "received"}
        /\ frame_io.stage = "received" =>
               /\ frame_io.buf = frame_io.payload
               /\ frame_io.n = RunLen(frame_io.payload)

(***************************************************************************)
(* C22: a report that is no well-formed Ruuvi advertisement (of any        *)
(* length, address kind and content) is dropped: nothing is enqueued, and  *)
(* the handler does not abort, it goes on with the following reports.      *)
(***************************************************************************)
\* the advertisement of a Ruuvi sensor: random address, the company ID at
\* one of the two offsets, then a payload of format 5 or E1 of full length
IsRuuviAdvert(r) ==
    /\ r.addr_kind = "RANDOM"
    /\ \E index \in {4, 7} :
          /\ Len(r.data) > index
          /\ Range(r.data, index - 2, index) = RUUVI_MAN_ID
          /\ \/ At(r.data, index) = 5 /\ Len(r.data) - index >= 24
             \/ At(r.data, index) = 225 /\ Len(r.data) - index >= 40

C22_MalformedReportDropped ==
    [][(report'.seen = report.seen + 1 /\ ~IsRuuviAdvert(report')) =>
           /\ scan_pc' = "scanning"
           /\ channel' = channel
           /\ forwarded' = forwarded]_vars

(***************************************************************************)
(* C23: when the deduplication table holds 16 MACs and a record of a MAC   *)
(* that is not in the table arrives, the table stays as it is, the record  *)
(* is forwarded to the handoff queue, and the handler keeps scanning.      *)
(***************************************************************************)
C23_FullTablePassesThrough ==
    [][(/\ Len(arrivals') = Len(arrivals) + 1
        /\ Cardinality(DOMAIN sequence_numbers) = SEQ_MAP_CAP
        /\ Last(arrivals').mac \notin DOMAIN sequence_numbers) =>
           /\ sequence_numbers' = sequence_numbers
           /\ forwarded' = Append(forwarded, Last(arrivals'))
           /\ channel' # <<>> /\ Last(channel') = Last(arrivals')
           /\ scan_pc' = "scanning"]_vars

\* the same measurement of a sensor without a table entry went through twice
C23_Witness ==
    /\ Cardinality(DOMAIN sequence_numbers) = SEQ_MAP_CAP
    /\ Len(forwarded) >= 2
    /\ Last(forwarded).mac \notin DOMAIN sequence_numbers
    /\ forwarded[Len(forwarded) - 1] = Last(forwarded)
    /\ Last(channel) = Last(forwarded)

C25_V2Fields ==
    (parse_io.done /\ parse_io.data_format = 5 /\ Len(parse_io.data) >= 24) =>
        LET P == parse_io.data
            r == parse_io.result
            u == 256 * P[2] + P[3]
        IN  /\ r.ok
            /\ r.mac = <<P[19], P[20], P[21], P[22], P[23], P[24]>>
            /\ r.temp = (IF P[2] >= 128 THEN u - 65536 ELSE u)
            /\ r.temp \in -32768..32767
            /\ r.measurement_seq = 256 * P[17] + P[18]

\* a negative temperature: P[1..3] = 80 13 is -32749
C25_Witness ==
    /\ parse_io.done
    /\ parse_io.data_format = 5
    /\ Len(parse_io.data) = 24
    /\ parse_io.data[2] = 128
    /\ parse_io.result.ok
    /\ parse_io.data[3] = 19
    /\ parse_io.result.temp = -32749

(***************************************************************************)
(* C26: for an E1 payload voc_index is byte 17 shifted left by one with    *)
(* bit 6 of the flags byte (offset 28) as its lowest bit, nox_index is     *)
(* byte 18 shifted left by one with bit 7 of the flags byte, both within   *)
(* 0..511; bytes 0x80, 0x40 and flags 0xC0 give 257 and 129.               *)
(***************************************************************************)
C26_VocNoxAssembly ==
    (parse_io.done /\ parse_io.data_format = 225 /\ Len(parse_io.data) >= 40) =>
        LET P == parse_io.data
            r == parse_io.result
            bit6 == (P[29] \div 64) % 2
            bit7 == (P[29] \div 128) % 2
        IN  /\ r.ok
            /\ r.voc_index = 2 * P[18] + bit6
            /\ r.nox_index = 2 * P[19] + bit7
            /\ r.voc_index \in 0..511
            /\ r.nox_index \in 0..511
            /\ (P[18] = 128 /\ P[19] = 64 /\ P[29] = 192) =>
                   (r.voc_index = 257 /\ r.nox_index = 129)

C26_Witness ==
    /\ parse_io.done
    /\ parse_io.data_format = 225
    /\ Len(parse_io.data) = 40
    /\ parse_io.data[18] = 128 /\ parse_io.data[19] = 64 /\ parse_io.data[29] = 192
    /\ parse_io.result.ok
    /\ parse_io.result.voc_index = 257
    /\ parse_io.result.nox_index = 129

C28_HumidityFormulas ==
    conv_io.fn = "climate" =>
        /\ FLeq(Fin(0), conv_io.abs_humidity)
        /\ FLeq(conv_io.dew_point_temp, Fin(conv_io.temp))
        /\ (conv_io.temp = 222000 /\ conv_io.rel_humidity = 524125) =>
               /\ FLeq(Fin(102000), conv_io.abs_humidity)
               /\ FLeq(conv_io.abs_humidity, Fin(104000))

(***************************************************************************)
(* C29: within one connection attempt the sender passes through            *)
(* Connecting, Handshaking, TimeSyncing and Streaming in that order        *)
(* without skipping a stage (an attempt that fails goes back to            *)
(* Disconnected or Connecting); it takes records from the handoff queue    *)
(* only while Streaming: before that only the scanner changes the queue,   *)
(* so what it queued stays queued until a session is fully established.    *)
(***************************************************************************)
ListenerStage(pc) ==
    IF pc = "connect" THEN "Connecting"
    ELSE IF pc \in {"hs_write_e", "hs_read", "hs_write_s"} THEN "Handshaking"
    ELSE IF pc \in {"sync_send", "sync_recv"} THEN "TimeSyncing"
    ELSE IF pc = "sending" THEN "Streaming"
    ELSE "Disconnected"

C29_ListenerStagesInOrder ==
    [][LET a == ListenerStage(l_pc)
           b == ListenerStage(l_pc')
       IN  /\ a # b =>
                  \/ <<a, b>> \in {<<"Connecting", "Handshaking">>,
                                   <<"Handshaking", "TimeSyncing">>,
                                   <<"TimeSyncing", "Streaming">>,
                                   <<"Disconnected", "Connecting">>}
                  \/ b = "Disconnected"
                  \/ a = "TimeSyncing" /\ b = "Connecting"
           /\ received' # received => (a = "Streaming" /\ b \in {"Streaming", "Disconnected"})
           /\ a # "Streaming" =>
                  (channel' = channel \/ Len(arrivals') = Len(arrivals) + 1)]_vars

\* the only record taken from the queue so far was sent on the second
\* connection
C29_Witness ==
    /\ conn = 2
    /\ l_pc = "sending"
    /\ received = 1
    /\ DataOn(2) # {}

(***************************************************************************)
(* C30: the handler of a connection goes through Accepting, Handshaking,   *)
(* TimeServing, Serving and Closed in that order (an error closes it from  *)
(* any stage); it inserts rows only while Serving, after the handshake was *)
(* completed and the time reply sent; once closed it stays closed and      *)
(* reads nothing, writes nothing and inserts nothing.                      *)
(***************************************************************************)
GatewayStage(pc) ==
    IF pc = "idle" THEN "Accepting"
    ELSE IF pc \in {"recv_e", "send_e_ee_s_es", "recv_s_se"} THEN "Handshaking"
    ELSE IF pc \in {"recv_time_request", "send_time"} THEN "TimeServing"
    ELSE IF pc \in {"serving", "inserting"} THEN "Serving"
    ELSE "Closed"

\* the third handshake message of the listener is on connection c
Hs3On(c) ==
    {i \in 1..Len(wire[c]) : /\ wire[c][i].from = "listener"
                             /\ wire[c][i].frame.kind = "handshake"
                             /\ wire[c][i].frame.msg = 3}

C30_GatewayStagesInOrder ==
    [][\A c \in Conns :
          LET a == GatewayStage(g_pc[c])
              b == GatewayStage(g_pc'[c])
          IN  /\ a # b =>
                     \/ <<a, b>> \in {<<"Accepting", "Handshaking">>,
                                      <<"Handshaking", "TimeServing">>,
                                      <<"TimeServing", "Serving">>}
                     \/ a # "Accepting" /\ b = "Closed"
              /\ rows'[c] # rows[c] =>
                     (a = "Serving" /\ Hs3On(c) # {} /\ RepliesOn(c) # {})
              /\ a = "Closed" =>
                     /\ rows'[c] = rows[c]
                     /\ l2g'[c] = l2g[c]
                     /\ Len(g2l'[c]) <= Len(g2l[c])
                     /\ g_log'[c] \in {g_log[c], <<>>}]_vars

\* a handler that inserted a row has closed on an error of its serving loop,
\* and the listener has written to the connection since
C30_Witness ==
    /\ conn >= 1
    /\ g_pc[conn] = "closed"
    /\ g_fail[conn] = "serve"
    /\ Len(rows[conn]) >= 1
    /\ Len(wire[conn]) >= 1
    /\ Last(wire[conn]).from = "listener"
    /\ Last(wire[conn]).frame.body.type = "record"
    /\ Cardinality(DataOn(conn)) >= 2

(***************************************************************************)
(* Properties of the LED task                                              *)
(***************************************************************************)
\* C31: when the LED task takes events off its channel it starts to paint
\* the colour of the event queued last (BleOk green, BleDuplicate red,
\* TcpOk blue) and leaves none of them queued; the LED changes only to the
\* colour of the write in progress; and with an event queued during the
\* 80 ms the task goes on to paint without writing black.
C31_LatestWins ==
    [][/\ (led_pc \in {"receive", "window"} /\ led_channel # <<>> /\ led_pc' # led_pc) =>
             /\ led_pc' = "write"
             /\ led_channel' = <<>>
             /\ event' = led_channel[Len(led_channel)]
             /\ led_data' = CASE event' = "BleOk" -> "GREEN"
                               [] event' = "BleDuplicate" -> "RED"
                               [] event' = "TcpOk" -> "BLUE"
             /\ led' = led
       /\ led' # led => led' = led_data /\ led_pc \in {"write", "clear"}
       /\ (led' = "BLACK" /\ led # "BLACK") => led_pc = "clear" /\ led_channel' = led_channel
       /\ led_pc' = "clear" /\ led_pc # "clear" => led_pc = "window" /\ led_channel = <<>>
      ]_vars

\* BleOk is shown in green, then BleDuplicate and TcpOk are taken together
\* and blue, the later one, is being written over the green
C31_Witness ==
    /\ arrivals = <<Record("M", 1), Record("M", 1)>>
    /\ received = 1
    /\ led_channel = <<>>
    /\ led = "GREEN"
    /\ led_pc = "write"
    /\ led_data = "BLUE"

\* C32: when the LED is lit, either a further event is queued or the LED
\* is eventually black again with the task back at its blocking receive,
\* holding no event: the LED does not stay lit forever over an empty
\* channel.
C32_EventuallyCleared ==
    (led # "BLACK" /\ led_channel = <<>>)
        ~> (led_channel # <<>> \/ (led = "BLACK" /\ led_pc = "receive" /\ event = None))

\* the LED was lit for a report and is black again, the task waiting
C32_Witness ==
    /\ arrivals # <<>>
    /\ led_channel = <<>>
    /\ led = "BLACK"
    /\ led_pc = "receive"
    /\ event = None

\* C40: the match of the LED task never takes its None arm: the task is
\* never at unreachable!(), and while a colour is being written the task
\* holds the event of that colour.
C40_EventIsSomeAtMatch ==
    /\ led_pc # "unreachable"
    /\ led_pc = "write" => event \in LedEvents /\ led_data # "BLACK"

\* with the LED black the task received the events of two reports and
\* matched the later one
C40_Witness ==
    /\ arrivals = <<Record("M", 1), Record("M", 1)>>
    /\ received = 0
    /\ forwarded = <<Record("M", 1)>>
    /\ led_pc = "write"
    /\ event = "BleDuplicate"
    /\ led = "BLACK"
    /\ led_data = "RED"
    /\ led_channel = <<>>

(***************************************************************************)
(* Properties of the handoff between the scanner and the sender            *)
(***************************************************************************)
\* C33: a handler step for a report that is new for the deduplication
\* table puts its record on the handoff channel: the record is the newest
\* entry of the channel, which held fewer than 16 records at the try_send,
\* whatever the sender has taken before.
C33_NewRecordIsEnqueued ==
    [][(/\ arrivals' # arrivals
        /\ \/ Last(arrivals').mac \notin DOMAIN sequence_numbers
           \/ sequence_numbers[Last(arrivals').mac] # Last(arrivals').seq)
       => /\ channel' # <<>>
          /\ Last(channel') = Last(arrivals')
          /\ Len(channel') = (IF Len(channel) = CHANNEL_CAP THEN 0 ELSE Len(channel)) + 1
          /\ forwarded' = Append(forwarded, Last(arrivals'))]_vars

\* the sender has taken one record, and the eighteenth new record found
\* the channel full: it is on the channel, alone
C33_Witness ==
    /\ received = 1
    /\ Len(forwarded) = 18
    /\ channel = <<Last(forwarded)>>
    /\ Last(arrivals) = Last(forwarded)

(***************************************************************************)
(* Properties of the established session                                   *)
(***************************************************************************)
\* C34: while the sender is in 'sending, its PSK is the gateway's, the
\* handler of its connection has got past the handshake and the time
\* service (it serves, or it ended while serving), and the gateway has
\* written the time reply of this connection under the session key the
\* listener holds.
C34_StreamingOnlyToAuthenticatedPeer ==
    l_pc = "sending" =>
        /\ auth = PSK_KEY
        /\ l_tp.key = <<conn, PSK_KEY>>
        /\ g_pc[conn] \in {"serving", "inserting", "closed"}
        /\ g_fail[conn] \in {"none", "serve", "shutdown"}
        /\ \E i \in 1..Len(wire[conn]) :
              /\ wire[conn][i].from = "gateway"
              /\ wire[conn][i].frame.kind = "transport"
              /\ wire[conn][i].frame.key = l_tp.key
              /\ wire[conn][i].frame.body = TimeBody

\* the sender streams on its second connection to a handler that serves
C34_Witness ==
    /\ conn = 2
    /\ l_pc = "sending"
    /\ g_pc[2] = "serving"
    /\ g_tp[2].key = l_tp.key

\* the transport frames the listener has written on c, in order
IsListenerData(e) == e.from = "listener" /\ e.frame.kind = "transport"

ListenerData(c) == SelectSeq(wire[c], IsListenerData)

\* C35: on a network that delivers what is written, the n-th data frame of
\* a connection carries the nonce n - 1; the frames in flight to a serving
\* handler carry the nonces the handler expects next, in order, so no
\* frame fails to decrypt, whatever the listener skipped and whatever the
\* handler failed to deserialize or to insert; and the time request leaves
\* the nonces of both sides at 0 (the reply takes the gateway's sending
\* nonce 0 and the listener's receiving nonce 0).
C35_NoncesAligned ==
    /\ \A c \in Conns :
          /\ \A k \in 1..Len(ListenerData(c)) : ListenerData(c)[k].frame.nonce = k - 1
          /\ g_pc[c] \in {"serving", "inserting"} =>
                /\ g_tp[c].tx = 1
                /\ \A i \in 1..Len(l2g[c]) :
                      /\ l2g[c][i].kind = "transport"
                      /\ l2g[c][i].key = g_tp[c].key
                      /\ l2g[c][i].nonce = g_tp[c].rx + i - 1
                /\ c = conn /\ l_pc = "sending" => l_tp.tx = g_tp[c].rx + Len(l2g[c])
          /\ g_pc[c] \in {"recv_time_request", "send_time"} =>
                g_tp[c].tx = 0 /\ g_tp[c].rx = 0
          /\ \A i \in 1..Len(g_log[c]) : g_log[c][i].out # "decrypt_error"
    /\ l_pc \in {"sync_send", "sync_recv"} => l_tp.tx = 0 /\ l_tp.rx = 0
    /\ l_pc = "sending" => l_tp.rx = 1 /\ l_tp.tx >= Len(ListenerData(conn))

\* the listener skipped its first record and sent the second; the handler
\* failed to deserialize or to insert it and waits for nonce 1
C35_Witness ==
    /\ conn = 1
    /\ l_pc = "sending"
    /\ received = 2
    /\ Len(ListenerData(1)) = 1
    /\ l_tp.tx = 1
    /\ g_pc[1] = "serving"
    /\ g_tp[1].rx = 1
    /\ Len(g_log[1]) = 1
    /\ g_log[1][1].out \in {"parse_error", "insert_error"}

\* the records of the data frames the listener has written on c
SentRecords(c) ==
    [k \in 1..Len(ListenerData(c)) |-> ListenerData(c)[k].frame.body.val.rec]

\* C36: a step of the sender that takes a record takes the oldest one off
\* the channel for good and writes at most one frame, a data frame of that
\* record, which no data frame of this or of another connection carries
\* yet; no other step writes a data frame, and only the scanner puts a
\* record on the channel.
\* rec is carried by a data frame the listener has written
WasSent(rec) ==
    \E c \in Conns : \E i \in 1..Len(wire[c]) :
        IsListenerData(wire[c][i]) /\ wire[c][i].frame.body.val.rec = rec

C36_SentAtMostOnce ==
    [][/\ arrivals' = arrivals =>
            \/ channel' = channel
            \/ channel # <<>> /\ channel' = Tail(channel)
       /\ received' # received =>
            /\ received' = received + 1
            /\ channel # <<>> /\ channel' = Tail(channel)
            /\ conn' = conn
            /\ \/ wire' = wire
               \/ /\ wire' = [wire EXCEPT ![conn] = Append(@, Last(wire'[conn]))]
                  /\ IsListenerData(Last(wire'[conn]))
                  /\ Last(wire'[conn]).frame.body.val.rec = Head(channel)
                  /\ ~WasSent(Head(channel))
       /\ (received' = received /\ conn' = conn /\ conn \in Conns
             /\ Len(wire'[conn]) > Len(wire[conn])) =>
            ~IsListenerData(Last(wire'[conn]))
      ]_vars

\* the send of the first record failed on connection 1; on connection 2
\* the second record has been sent, and the first is on no channel and in
\* no frame
C36_Witness ==
    /\ conn = 2
    /\ g_pc[1] = "serving"
    /\ SentRecords(1) = <<>>
    /\ received = 2
    /\ channel = <<>>
    /\ SentRecords(2) = <<Record("M", 2)>>

(***************************************************************************)
(* Properties of the timestamps of a session                               *)
(***************************************************************************)
\* C37: two packets stamped one after the other against the same reference
\* point both get a timestamp, and the timestamps are ordered as the
\* capture times are, on either side of the reference point.
C37_StampsMonotone ==
    [][(pkt_timestamp.set /\ pkt_timestamp'.set /\ time_reference' = time_reference) =>
          /\ ~pkt_timestamp.ts.panic
          /\ ~pkt_timestamp'.ts.panic
          /\ pkt_timestamp.t <= pkt_timestamp'.t =>
                LeqU64(pkt_timestamp.ts.val, pkt_timestamp'.ts.val)
          /\ pkt_timestamp'.t <= pkt_timestamp.t =>
                LeqU64(pkt_timestamp'.ts.val, pkt_timestamp.ts.val)]_vars

(***************************************************************************)
(* Properties of the stored timestamp                                      *)
(***************************************************************************)
\* C38: a record without timestamp gets the Unix epoch as the timestamp of
\* its row, not the reception time; the reception time is taken only for
\* a record whose milliseconds are beyond the last date DateTime can
\* represent; and milliseconds up to that date are stored as they are.
C38_MissingTimestampIsEpoch ==
    conv_io.fn = "store" =>
        /\ ~conv_io.timestamp.some =>
              conv_io.row = [dt |-> [neg |-> FALSE, mag |-> ToU64(0)], fallback |-> FALSE]
        /\ conv_io.row.fallback =>
              /\ conv_io.timestamp.some
              /\ ~LeqU64(conv_io.timestamp.v, MAX_UTC_MILLIS)
              /\ conv_io.row.dt = [neg |-> FALSE, mag |-> conv_io.fallback_dt]
        /\ (conv_io.timestamp.some /\ LeqU64(conv_io.timestamp.v, MAX_UTC_MILLIS)) =>
              conv_io.row = [dt |-> [neg |-> FALSE, mag |-> conv_io.timestamp.v],
                             fallback |-> FALSE]

\* a row was inserted for a V2 record without timestamp
C38_Witness ==
    /\ conv_io.fn = "store"
    /\ conv_io.kind = "V2"
    /\ conv_io.timestamp = NoTimestamp
    /\ conv_io.inserted
    /\ conv_io.row.dt.mag = ToU64(0)

\* C39: the sender task never stops: it never aborts, after a failure (while
\* it sleeps before a retry) it comes back to a new connect attempt, and
\* while it streams, a record waiting in the channel is taken and handled
C39_SenderNeverStops ==
    /\ [](l_pc # "panicked")
    /\ (l_pc \in {"sleep_connect", "sleep_handshake", "sleep_reconnect"})
           ~> (l_pc = "connect")
    /\ \A n \in 0..MaxRunReports :
           (l_pc = "sending" /\ channel # <<>> /\ received = n)
               ~> (received = n + 1)

====
